---- MODULE Spec2Model ----
(***************************************************************************)
(* Employee management domain layer: the Employee aggregate and its field  *)
(* validators, the EmployeeStatus transition rule, the AuditLog record,    *)
(* the domain events with their dispatcher, and the orchestration done by  *)
(* EmployeeService (internal/domain/employee.go, events.go), the User       *)
(* aggregate with its password hashing (internal/domain/user.go) and       *)
(* UserService (internal/domain/user_service.go).                          *)
(*                                                                         *)
(* Strings are sequences of one-character strings, so that the validators  *)
(* are computed on their characters exactly as the Go code does; len() is  *)
(* Go's byte length.  Times are integers in an abstract unit; every call   *)
(* reads the clock once and the clock advances between calls.              *)
(***************************************************************************)
EXTENDS Integers, Sequences, FiniteSets, TLC

VARIABLES
    emp,        \* SpecAgg: the Employee object under test, or NoEmployee
    aggLast,    \* SpecAgg: the last constructor/mutator call and its error
    repo,       \* EmployeeRepository contents: stored ID -> Employee
    nextId,     \* number of UUIDs handed out so far by uuid.New()
    now,        \* time.Now()
    last,       \* SpecSvc: the last EmployeeService call, its result and effects
    handlers,   \* EventDispatcher.handlers: event type -> sequence of handlers
    pc,         \* SpecConc: position of each concurrent caller
    loc,        \* SpecConc: each caller's arguments, locals and result
    urepo,      \* UserRepository contents: stored ID -> User
    usr,        \* SpecUser: the User object under test, or NoUser
    usrPw,      \* SpecUser: the plaintext whose hash usr.Password was made from
    bcryptStrict \* whether the build's bcrypt.GenerateFromPassword refuses a
                \* password longer than 72 bytes (it truncates it otherwise)

userVars == <<usr, usrPw, bcryptStrict>>
vars == <<emp, aggLast, repo, nextId, now, last, handlers, pc, loc, urepo,
          usr, usrPw, bcryptStrict>>

-----------------------------------------------------------------------------
(* Bounds of the model *)

MaxCalls == 3       \* calls made in one behaviour (the clock stops there)
MaxIds == 2         \* UUIDs that uuid.New() hands out in one behaviour
MaxCallers == 2      \* concurrent callers of the services
MaxHandlers == 3     \* handlers registered on one EventDispatcher

-----------------------------------------------------------------------------
(* Values *)

NilErr == "nil"                 \* Go's nil error
\* A pointer is a sequence: empty when nil, else holding the value pointed to
Ptr(x) == <<x>>
Deref(p) == p[1]
NoUser == <<>>
NoEmployee == <<>>              \* a nil *Employee
NilManager == <<>>              \* a nil *uuid.UUID
NilAddress == <<>>              \* a nil *Address
NilAuditLog == <<>>             \* a nil *AuditLog
NilValues == <<>>               \* a nil (or empty) map[string]interface{}
ZeroTime == -2000               \* the zero time.Time (January 1, year 1)
UuidNil == 0                    \* uuid.Nil

IDs == 1..MaxIds

\* Errors of the services (employee.go 1058-1063, user_service.go)
ErrEmployeeNotFound == "employee not found"
ErrEmailAlreadyExists == "email already exists"
ErrManagerNotFound == "manager not found"
ErrEmployeeHasDirectReports == "employee has direct reports and cannot be deleted"
ErrUsernameAlreadyExists == "username already exists"

\* EmployeeStatus constants
EmployeeStatusActive == "ACTIVE"
EmployeeStatusTerminated == "TERMINATED"
EmployeeStatusOnLeave == "ON_LEAVE"

\* Audit operations
OperationCreateEmployee ==      \* "employee:create"
    <<"e","m","p","l","o","y","e","e",":","c","r","e","a","t","e">>
OperationUpdateEmployee ==      \* "employee:update"
    <<"e","m","p","l","o","y","e","e",":","u","p","d","a","t","e">>
OperationDeleteEmployee ==      \* "employee:delete"
    <<"e","m","p","l","o","y","e","e",":","d","e","l","e","t","e">>
OperationChangeStatus ==        \* "employee:change_status"
    <<"e","m","p","l","o","y","e","e",":","c","h","a","n","g","e","_","s","t","a","t","u","s">>
OperationUpdateSalary ==        \* "employee:update_salary"
    <<"e","m","p","l","o","y","e","e",":","u","p","d","a","t","e","_","s","a","l","a","r","y">>

-----------------------------------------------------------------------------
(* Characters and strings *)

AsciiLower == {"a","b","c","d","e","f","g","h","i","j","k","l","m",
               "n","o","p","q","r","s","t","u","v","w","x","y","z"}
AsciiUpper == {"A","B","C","D","E","F","G","H","I","J","K","L","M",
               "N","O","P","Q","R","S","T","U","V","W","X","Y","Z"}
AsciiLetters == AsciiLower \cup AsciiUpper
Digits == {"0","1","2","3","4","5","6","7","8","9"}
\* unicode.IsLetter: the ASCII letters and the letters outside ASCII
UnicodeLetters == AsciiLetters \cup {"é"}
\* unicode.IsSpace
UnicodeSpaces == {" ", "\t"}

\* Number of bytes of one character in UTF-8
Bytes(c) == IF c = "é" THEN 2 ELSE 1

\* len(s) of a Go string: its length in bytes
RECURSIVE len(_)
len(s) == IF s = <<>> THEN 0 ELSE Bytes(Head(s)) + len(Tail(s))

AllIn(s, chars) == \A k \in 1..Len(s) : s[k] \in chars

\* The first non-nil error of a sequence of checks made in order
RECURSIVE FirstErr(_)
FirstErr(errs) ==
    IF errs = <<>> THEN NilErr
    ELSE IF Head(errs) # NilErr THEN Head(errs)
    ELSE FirstErr(Tail(errs))

-----------------------------------------------------------------------------
(* Field validators of the Employee aggregate (employee.go 125-257) *)

validateName(name, fieldName) ==
    IF name = <<>> THEN fieldName \o " is required"
    ELSE IF len(name) < 2 THEN fieldName \o " must be at least 2 characters long"
    ELSE IF len(name) > 50 THEN fieldName \o " cannot exceed 50 characters"
    ELSE IF ~AllIn(name, UnicodeLetters \cup UnicodeSpaces \cup {"-", "'"})
         THEN fieldName \o " contains invalid characters"
    ELSE NilErr

\* ^[a-zA-Z0-9._%+-]+@[a-zA-Z0-9.-]+\.[a-zA-Z]{2,}$
emailRegex(s) ==
    \E i \in 1..Len(s), j \in 1..Len(s) :
        /\ s[i] = "@" /\ i > 1
        /\ \A k \in 1..(i-1) : s[k] \in AsciiLetters \cup Digits \cup {".","_","%","+","-"}
        /\ s[j] = "." /\ j > i + 1
        /\ \A k \in (i+1)..(j-1) : s[k] \in AsciiLetters \cup Digits \cup {".","-"}
        /\ Len(s) - j >= 2
        /\ \A k \in (j+1)..Len(s) : s[k] \in AsciiLetters

validateEmail(email) ==
    IF email = <<>> THEN "email is required"
    ELSE IF len(email) > 100 THEN "email cannot exceed 100 characters"
    ELSE IF ~emailRegex(email) THEN "email format is invalid"
    ELSE NilErr

\* ^[\d\s\-\+\(\)]+$
validatePhone(phone) ==
    IF len(phone) > 20 THEN "phone cannot exceed 20 characters"
    ELSE IF ~(phone # <<>> /\ AllIn(phone, Digits \cup {" ", "\t", "-", "+", "(", ")"}))
         THEN "phone format is invalid"
    ELSE NilErr

validateDepartment(department) ==
    IF department = <<>> THEN "department is required"
    ELSE IF len(department) < 2 THEN "department must be at least 2 characters long"
    ELSE IF len(department) > 50 THEN "department cannot exceed 50 characters"
    ELSE IF ~AllIn(department, UnicodeLetters \cup UnicodeSpaces \cup {"&"})
         THEN "department contains invalid characters"
    ELSE NilErr

validatePosition(position) ==
    IF position = <<>> THEN "position is required"
    ELSE IF len(position) < 2 THEN "position must be at least 2 characters long"
    ELSE IF len(position) > 50 THEN "position cannot exceed 50 characters"
    ELSE IF ~AllIn(position, UnicodeLetters \cup UnicodeSpaces \cup {"-", "/"})
         THEN "position contains invalid characters"
    ELSE NilErr

\* time.Now().AddDate(-50, 0, 0): fifty units of the clock
validateHireDate(hireDate, t) ==
    IF hireDate = ZeroTime THEN "hire date is required"
    ELSE IF hireDate > t THEN "hire date cannot be in the future"
    ELSE IF hireDate < t - 50 THEN "hire date cannot be more than 50 years in the past"
    ELSE NilErr

validateSalary(salary) ==
    IF salary < 0 THEN "salary cannot be negative"
    ELSE IF salary = 0 THEN "salary is required"
    ELSE IF salary > 1000000 THEN "salary cannot exceed $1,000,000"
    ELSE NilErr

-----------------------------------------------------------------------------
(* Address value object (cmd/migrate/main.go 209-318) *)

LowerSeq == <<"a","b","c","d","e","f","g","h","i","j","k","l","m",
              "n","o","p","q","r","s","t","u","v","w","x","y","z">>
UpperSeq == <<"A","B","C","D","E","F","G","H","I","J","K","L","M",
              "N","O","P","Q","R","S","T","U","V","W","X","Y","Z">>

\* strings.ToUpper, character by character
ToUpper(s) ==
    [k \in 1..Len(s) |->
        IF s[k] \in AsciiLower
        THEN UpperSeq[CHOOSE n \in 1..26 : LowerSeq[n] = s[k]]
        ELSE s[k]]

\* strings.ReplaceAll(s, " ", "")
RECURSIVE RemoveSpaces(_)
RemoveSpaces(s) ==
    IF s = <<>> THEN <<>>
    ELSE IF Head(s) = " " THEN RemoveSpaces(Tail(s))
    ELSE <<Head(s)>> \o RemoveSpaces(Tail(s))

\* strings.TrimSpace
RECURSIVE TrimLeft(_)
TrimLeft(s) ==
    IF s # <<>> /\ Head(s) \in UnicodeSpaces THEN TrimLeft(Tail(s)) ELSE s

RECURSIVE TrimRight(_)
TrimRight(s) ==
    IF s # <<>> /\ s[Len(s)] \in UnicodeSpaces
    THEN TrimRight(SubSeq(s, 1, Len(s) - 1)) ELSE s

TrimSpace(s) == TrimRight(TrimLeft(s))

\* ^\d{5}(-\d{4})?$
usZip(s) ==
    \/ Len(s) = 5 /\ AllIn(s, Digits)
    \/ /\ Len(s) = 10 /\ s[6] = "-"
       /\ AllIn(SubSeq(s, 1, 5), Digits) /\ AllIn(SubSeq(s, 7, 10), Digits)

\* ^[A-Z]\d[A-Z][ ]?\d[A-Z]\d$
caPostal(s) ==
    LET t == IF Len(s) = 7 /\ s[4] = " " THEN SubSeq(s, 1, 3) \o SubSeq(s, 5, 7) ELSE s
    IN  /\ Len(t) = 6
        /\ t[1] \in AsciiUpper /\ t[2] \in Digits /\ t[3] \in AsciiUpper
        /\ t[4] \in Digits /\ t[5] \in AsciiUpper /\ t[6] \in Digits

\* ^[A-Z0-9]{3,10}$
generalPostal(s) == Len(s) >= 3 /\ Len(s) <= 10 /\ AllIn(s, AsciiUpper \cup Digits)

validatePostalCode(postalCode) ==
    IF \/ usZip(postalCode) \/ caPostal(postalCode)
       \/ generalPostal(ToUpper(RemoveSpaces(postalCode)))
    THEN NilErr
    ELSE "postal code format is invalid"

\* Address.Validate without the rule that one field requires the others
AddressValidate_NoRequired(p) ==
    IF p = NilAddress THEN NilErr
    ELSE LET a == Deref(p) IN FirstErr(<<
        IF a.Street # <<>> /\ len(a.Street) < 5 THEN "street must be at least 5 characters long" ELSE NilErr,
        IF len(a.Street) > 200 THEN "street cannot exceed 200 characters" ELSE NilErr,
        IF a.City # <<>> /\ len(a.City) < 2 THEN "city must be at least 2 characters long" ELSE NilErr,
        IF len(a.City) > 100 THEN "city cannot exceed 100 characters" ELSE NilErr,
        IF a.State # <<>> /\ len(a.State) < 2 THEN "state must be at least 2 characters long" ELSE NilErr,
        IF len(a.State) > 50 THEN "state cannot exceed 50 characters" ELSE NilErr,
        IF a.PostalCode # <<>> /\ validatePostalCode(a.PostalCode) # NilErr
           THEN "invalid postal code: " \o validatePostalCode(a.PostalCode) ELSE NilErr,
        IF a.Country # <<>> /\ len(a.Country) < 2 THEN "country must be at least 2 characters long" ELSE NilErr,
        IF len(a.Country) > 100 THEN "country cannot exceed 100 characters" ELSE NilErr
    >>)

AddressValidate(p) ==
    IF p = NilAddress THEN NilErr
    ELSE LET a == Deref(p) IN FirstErr(<<
        IF a.Street # <<>> \/ a.City # <<>> \/ a.State # <<>>
              \/ a.PostalCode # <<>> \/ a.Country # <<>>
        THEN IF a.Street = <<>> THEN "street is required when other address fields are provided"
             ELSE IF a.City = <<>> THEN "city is required when other address fields are provided"
             ELSE IF a.State = <<>> THEN "state is required when other address fields are provided"
             ELSE IF a.PostalCode = <<>> THEN "postal code is required when other address fields are provided"
             ELSE IF a.Country = <<>> THEN "country is required when other address fields are provided"
             ELSE NilErr
        ELSE NilErr,
        IF a.Street # <<>> /\ len(a.Street) < 5 THEN "street must be at least 5 characters long" ELSE NilErr,
        IF len(a.Street) > 200 THEN "street cannot exceed 200 characters" ELSE NilErr,
        IF a.City # <<>> /\ len(a.City) < 2 THEN "city must be at least 2 characters long" ELSE NilErr,
        IF len(a.City) > 100 THEN "city cannot exceed 100 characters" ELSE NilErr,
        IF a.State # <<>> /\ len(a.State) < 2 THEN "state must be at least 2 characters long" ELSE NilErr,
        IF len(a.State) > 50 THEN "state cannot exceed 50 characters" ELSE NilErr,
        IF a.PostalCode # <<>> /\ validatePostalCode(a.PostalCode) # NilErr
           THEN "invalid postal code: " \o validatePostalCode(a.PostalCode) ELSE NilErr,
        IF a.Country # <<>> /\ len(a.Country) < 2 THEN "country must be at least 2 characters long" ELSE NilErr,
        IF len(a.Country) > 100 THEN "country cannot exceed 100 characters" ELSE NilErr
    >>)

\* NewAddress: [addr, err]; the fields are trimmed before validation
NewAddress(street, city, state, postalCode, country) ==
    LET addr == [Street |-> TrimSpace(street), City |-> TrimSpace(city),
                 State |-> TrimSpace(state), PostalCode |-> TrimSpace(postalCode),
                 Country |-> TrimSpace(country)]
    IN  IF AddressValidate(Ptr(addr)) # NilErr
        THEN [addr |-> NilAddress, err |-> AddressValidate(Ptr(addr))]
        ELSE [addr |-> Ptr(addr), err |-> NilErr]

-----------------------------------------------------------------------------
(* EmployeeStatus (employee.go 1071-1121) *)

StatusIsValid(s) ==
    s \in {EmployeeStatusActive, EmployeeStatusTerminated, EmployeeStatusOnLeave}

\* CanChangeTo without the terminal-state check
CanChangeTo_NoTerminal(s, target) == StatusIsValid(target)

CanChangeTo(s, target) ==
    IF s = EmployeeStatusTerminated THEN FALSE ELSE StatusIsValid(target)

ValidateTransition(s, target) ==
    IF ~CanChangeTo(s, target)
    THEN "invalid status transition from " \o s \o " to " \o target
    ELSE NilErr

-----------------------------------------------------------------------------
(* Employee aggregate (employee.go 13-377) *)

\* Employee.Validate at clock value t
EmployeeValidate(p, t) ==
    IF p = NoEmployee THEN "employee cannot be nil"
    ELSE LET e == Deref(p) IN FirstErr(<<
        IF e.ID = UuidNil THEN "employee ID cannot be empty" ELSE NilErr,
        validateName(e.FirstName, "first name"),
        validateName(e.LastName, "last name"),
        validateEmail(e.Email),
        IF e.Phone # <<>> THEN validatePhone(e.Phone) ELSE NilErr,
        validateDepartment(e.Department),
        validatePosition(e.Position),
        validateHireDate(e.HireDate, t),
        validateSalary(e.Salary),
        IF ~StatusIsValid(e.Status) THEN "invalid employee status: " \o e.Status ELSE NilErr,
        IF e.Address # NilAddress /\ AddressValidate(e.Address) # NilErr
           THEN "invalid address: " \o AddressValidate(e.Address) ELSE NilErr
    >>)

\* NewEmployee with uuid.New() = id and time.Now() = t: [employee, err]
NewEmployee(id, a, t) ==
    LET employee == [ID |-> id, FirstName |-> a.firstName, LastName |-> a.lastName,
                     Email |-> a.email, Phone |-> a.phone,
                     Department |-> a.department, Position |-> a.position,
                     HireDate |-> a.hireDate, Salary |-> a.salary,
                     Status |-> EmployeeStatusActive, ManagerID |-> a.managerID,
                     Address |-> a.address, CreatedAt |-> t, UpdatedAt |-> t]
    IN  IF EmployeeValidate(Ptr(employee), t) # NilErr
        THEN [employee |-> NoEmployee, err |-> EmployeeValidate(Ptr(employee), t)]
        ELSE [employee |-> Ptr(employee), err |-> NilErr]

IsTerminated(e) == e.Status = EmployeeStatusTerminated

\* The mutators take the object e and return [employee, err]: (a pointer to)
\* the object after the call and the error

\* ChangeStatus without the assignment of UpdatedAt
ChangeStatus_NoBump(e, newStatus, t) ==
    IF ValidateTransition(e.Status, newStatus) # NilErr
    THEN [employee |-> Ptr(e), err |-> ValidateTransition(e.Status, newStatus)]
    ELSE [employee |-> Ptr([e EXCEPT !.Status = newStatus]), err |-> NilErr]

ChangeStatus(e, newStatus, t) ==
    IF ValidateTransition(e.Status, newStatus) # NilErr
    THEN [employee |-> Ptr(e), err |-> ValidateTransition(e.Status, newStatus)]
    ELSE [employee |-> Ptr([e EXCEPT !.Status = newStatus, !.UpdatedAt = t]), err |-> NilErr]

\* UpdateSalary without the call of validateSalary
UpdateSalary_NoValidation(e, newSalary, t) ==
    IF IsTerminated(e)
    THEN [employee |-> Ptr(e), err |-> "cannot update salary for terminated employees"]
    ELSE [employee |-> Ptr([e EXCEPT !.Salary = newSalary, !.UpdatedAt = t]), err |-> NilErr]

UpdateSalary(e, newSalary, t) ==
    IF validateSalary(newSalary) # NilErr
    THEN [employee |-> Ptr(e), err |-> validateSalary(newSalary)]
    ELSE IF IsTerminated(e)
    THEN [employee |-> Ptr(e), err |-> "cannot update salary for terminated employees"]
    ELSE [employee |-> Ptr([e EXCEPT !.Salary = newSalary, !.UpdatedAt = t]), err |-> NilErr]

\* UpdateContactInfo storing the email before it looks at the phone
UpdateContactInfo_EmailFirst(e, email, phone, t) ==
    IF validateEmail(email) # NilErr
    THEN [employee |-> Ptr(e), err |-> validateEmail(email)]
    ELSE IF phone # <<>> /\ validatePhone(phone) # NilErr
    THEN [employee |-> Ptr([e EXCEPT !.Email = email]), err |-> validatePhone(phone)]
    ELSE [employee |-> Ptr([e EXCEPT !.Email = email, !.Phone = phone, !.UpdatedAt = t]),
          err |-> NilErr]

UpdateContactInfo(e, email, phone, t) ==
    IF validateEmail(email) # NilErr
    THEN [employee |-> Ptr(e), err |-> validateEmail(email)]
    ELSE IF phone # <<>> /\ validatePhone(phone) # NilErr
    THEN [employee |-> Ptr(e), err |-> validatePhone(phone)]
    ELSE [employee |-> Ptr([e EXCEPT !.Email = email, !.Phone = phone, !.UpdatedAt = t]),
          err |-> NilErr]

UpdatePosition(e, position, department, t) ==
    IF validatePosition(position) # NilErr
    THEN [employee |-> Ptr(e), err |-> validatePosition(position)]
    ELSE IF validateDepartment(department) # NilErr
    THEN [employee |-> Ptr(e), err |-> validateDepartment(department)]
    ELSE IF IsTerminated(e)
    THEN [employee |-> Ptr(e), err |-> "cannot update position for terminated employees"]
    ELSE [employee |-> Ptr([e EXCEPT !.Position = position, !.Department = department,
                                 !.UpdatedAt = t]),
          err |-> NilErr]

UpdateAddress(e, address, t) ==
    IF address # NilAddress /\ AddressValidate(address) # NilErr
    THEN [employee |-> Ptr(e), err |-> "invalid address: " \o AddressValidate(address)]
    ELSE [employee |-> Ptr([e EXCEPT !.Address = address, !.UpdatedAt = t]), err |-> NilErr]

\* SetManager without the comparison with the employee's own ID
SetManager_NoSelfCheck(e, managerID, t) ==
    [employee |-> Ptr([e EXCEPT !.ManagerID = managerID, !.UpdatedAt = t]), err |-> NilErr]

SetManager(e, managerID, t) ==
    IF managerID # NilManager /\ Deref(managerID) = e.ID
    THEN [employee |-> Ptr(e), err |-> "employee cannot be their own manager"]
    ELSE [employee |-> Ptr([e EXCEPT !.ManagerID = managerID, !.UpdatedAt = t]), err |-> NilErr]

-----------------------------------------------------------------------------
(* Sample values the calls are made with *)

NameJo == <<"J","o">>
NameAnn == <<"A","n","n">>
NameOneByte == <<"J">>                  \* too short
NameDigit == <<"J","0">>                \* a character that is not allowed
EmailA == <<"a","@","x",".","c","o">>
EmailB == <<"b","@","x",".","c","o">>
EmailNoAt == <<"a","x",".","c","o">>    \* no @
PhoneOk == <<"5","5","5">>
PhoneBad == <<"5","x">>
DeptIT == <<"I","T">>
DeptRnD == <<"R","&","D">>
DeptBad == <<"I","1">>
PosDev == <<"D","e","v">>
PosQA == <<"Q","A">>
PosBad == <<"C","+","+">>
IpOk == <<"1",".","1",".","1",".","1">>
IpShort == <<"1",".","1">>
UserU1 == <<"u","1">>
AddrOkV == [Street |-> <<"1"," ","E","l","m">>, City |-> <<"L","A">>,
           State |-> <<"C","A">>, PostalCode |-> <<"9","0","0","0","1">>,
           Country |-> <<"U","S">>]
AddrOk == Ptr(AddrOkV)
AddrEmptyV == [Street |-> <<>>, City |-> <<>>, State |-> <<>>,
               PostalCode |-> <<>>, Country |-> <<>>]
AddrEmpty == Ptr(AddrEmptyV)
AddrPartial == Ptr([AddrEmptyV EXCEPT !.Street = <<"1"," ","E","l","m">>])

\* Arguments of NewEmployee / CreateEmployee that pass every validator
BaseArgs == [firstName |-> NameJo, lastName |-> NameAnn, email |-> EmailA,
             phone |-> <<>>, department |-> DeptIT, position |-> PosDev,
             hireDate |-> -10, salary |-> 50000, managerID |-> NilManager,
             address |-> NilAddress]

\* BaseArgs with one field replaced
InvalidArgs ==
    { [BaseArgs EXCEPT !.firstName = NameOneByte],
      [BaseArgs EXCEPT !.firstName = NameDigit],
      [BaseArgs EXCEPT !.lastName = <<>>],
      [BaseArgs EXCEPT !.email = EmailNoAt],
      [BaseArgs EXCEPT !.phone = PhoneBad],
      [BaseArgs EXCEPT !.department = DeptBad],
      [BaseArgs EXCEPT !.position = PosBad],
      [BaseArgs EXCEPT !.hireDate = ZeroTime],
      [BaseArgs EXCEPT !.hireDate = 20],
      [BaseArgs EXCEPT !.hireDate = -60],
      [BaseArgs EXCEPT !.salary = 0],
      [BaseArgs EXCEPT !.salary = -1],
      [BaseArgs EXCEPT !.salary = 1000001],
      [BaseArgs EXCEPT !.address = AddrPartial] }

StatusInputs == {EmployeeStatusActive, EmployeeStatusTerminated,
                 EmployeeStatusOnLeave, "RETIRED"}
SalaryInputs == {-1, 0, 60000, 1000000, 1000001}

-----------------------------------------------------------------------------
(* SpecAgg: one Employee object driven through its constructor and mutators *)

NoCall == [op |-> "none", err |-> NilErr, args |-> <<>>]

\* No User object is under test; no call hashes a password longer than 72
\* bytes, so that the builds of bcrypt do not differ
NoUserObject == usr = NoUser /\ usrPw = <<>> /\ bcryptStrict = TRUE

AggArgs ==
    {BaseArgs, [BaseArgs EXCEPT !.phone = PhoneOk, !.address = AddrOk],
     [BaseArgs EXCEPT !.managerID = Ptr(2)], [BaseArgs EXCEPT !.salary = 1000000]}
      \cup InvalidArgs

AggInit ==
    /\ emp = NoEmployee
    /\ aggLast = NoCall
    /\ now = 0
    /\ nextId = 0
    /\ repo = <<>>
    /\ last = NoCall
    /\ handlers = <<>>
    /\ pc = <<>>
    /\ loc = <<>>
    /\ urepo = <<>>
    /\ NoUserObject

AggUnchanged == UNCHANGED <<repo, nextId, last, handlers, pc, loc, urepo, userVars>>

\* Every call reads the clock, which has advanced since the previous call
AggCall(op, args, r) ==
    /\ now < MaxCalls + 1
    /\ \E res \in {r} :
          /\ now' = now + 1
          /\ emp' = res.employee
          /\ aggLast' = [op |-> op, err |-> res.err, args |-> args]
          /\ AggUnchanged

AggNewEmployee ==
    /\ emp = NoEmployee
    /\ \E a \in AggArgs : AggCall("NewEmployee", <<a>>, NewEmployee(1, a, now + 1))

AggChangeStatus ==
    /\ emp # NoEmployee
    /\ \E st \in StatusInputs :
          AggCall("ChangeStatus", <<st>>, ChangeStatus(Deref(emp), st, now + 1))

AggUpdateSalary ==
    /\ emp # NoEmployee
    /\ \E sal \in SalaryInputs :
          AggCall("UpdateSalary", <<sal>>, UpdateSalary(Deref(emp), sal, now + 1))

AggUpdateContactInfo ==
    /\ emp # NoEmployee
    /\ \E em \in {EmailA, EmailB, EmailNoAt, <<>>}, ph \in {<<>>, PhoneOk, PhoneBad} :
          AggCall("UpdateContactInfo", <<em, ph>>, UpdateContactInfo(Deref(emp), em, ph, now + 1))

AggUpdatePosition ==
    /\ emp # NoEmployee
    /\ \E pos \in {PosQA, PosBad, <<>>}, dep \in {DeptRnD, DeptBad} :
          AggCall("UpdatePosition", <<pos, dep>>, UpdatePosition(Deref(emp), pos, dep, now + 1))

AggUpdateAddress ==
    /\ emp # NoEmployee
    /\ \E ad \in {NilAddress, AddrOk, AddrEmpty, AddrPartial} :
          AggCall("UpdateAddress", <<ad>>, UpdateAddress(Deref(emp), ad, now + 1))

\* Addresses with every choice of empty and filled fields, and filled
\* addresses with one field that breaks its length or format rule
AddressFieldNames == {"Street", "City", "State", "PostalCode", "Country"}
ValidatedAddresses ==
    { [f \in AddressFieldNames |-> IF f \in filled THEN AddrOkV[f] ELSE <<>>] :
         filled \in SUBSET AddressFieldNames }
    \cup { [AddrOkV EXCEPT !.Street = <<"1"," ","E","l">>],
           [AddrOkV EXCEPT !.City = <<"L">>],
           [AddrOkV EXCEPT !.State = <<"C">>],
           [AddrOkV EXCEPT !.PostalCode = <<"!">>],
           [AddrOkV EXCEPT !.PostalCode = <<"K","1","A"," ","0","B","1">>],
           [AddrOkV EXCEPT !.Country = <<"U">>] }

\* Validate is called on an address value that belongs to no employee yet
AggAddressValidate ==
    /\ emp = NoEmployee
    /\ now < MaxCalls + 1
    /\ \E a \in ValidatedAddresses :
          aggLast' = [op |-> "Address.Validate", args |-> <<a>>,
                      err |-> AddressValidate(Ptr(a))]
    /\ now' = now + 1
    /\ UNCHANGED emp
    /\ AggUnchanged

AggSetManager ==
    /\ emp # NoEmployee
    /\ \E m \in {NilManager, Ptr(1), Ptr(2)} :
          AggCall("SetManager", <<m>>, SetManager(Deref(emp), m, now + 1))

AggNext ==
    \/ AggNewEmployee
    \/ AggChangeStatus
    \/ AggUpdateSalary
    \/ AggUpdateContactInfo
    \/ AggUpdatePosition
    \/ AggUpdateAddress
    \/ AggSetManager
    \/ AggAddressValidate

SpecAgg == AggInit /\ [][AggNext]_vars

-----------------------------------------------------------------------------
(* Claims about the Employee aggregate, checked under SpecAgg *)

\* Every field validator, run one by one on the object p points to
FieldValidatorsPass(p, t) ==
    LET e == Deref(p) IN
    /\ validateName(e.FirstName, "first name") = NilErr
    /\ validateName(e.LastName, "last name") = NilErr
    /\ validateEmail(e.Email) = NilErr
    /\ (e.Phone # <<>> => validatePhone(e.Phone) = NilErr)
    /\ validateDepartment(e.Department) = NilErr
    /\ validatePosition(e.Position) = NilErr
    /\ validateHireDate(e.HireDate, t) = NilErr
    /\ validateSalary(e.Salary) = NilErr
    /\ StatusIsValid(e.Status)
    /\ AddressValidate(e.Address) = NilErr

\* C2: once the Status is TERMINATED, every call of ChangeStatus, UpdateSalary
\* or UpdatePosition fails, whatever its argument, and the Status is still
\* TERMINATED after every call of a method of the aggregate.
C2_TerminatedIsTerminal ==
    [][ (emp # NoEmployee /\ Deref(emp).Status = EmployeeStatusTerminated)
        => /\ emp' # NoEmployee
           /\ Deref(emp').Status = EmployeeStatusTerminated
           /\ (aggLast'.op \in {"ChangeStatus", "UpdateSalary", "UpdatePosition"}
                 => aggLast'.err # NilErr) ]_vars

\* A terminated employee was asked for a valid salary and refused it
C2_Witness ==
    /\ emp # NoEmployee
    /\ Deref(emp).Status = EmployeeStatusTerminated
    /\ aggLast.op = "UpdateSalary"
    /\ aggLast.args = <<60000>>
    /\ aggLast.err = "cannot update salary for terminated employees"

\* C3: NewEmployee returns an error and no object, or an ACTIVE Employee on
\* which every field validator passes; after every mutator call, failed or
\* not, every field validator and Validate itself still pass.
C3_AlwaysValid ==
    /\ aggLast.op = "NewEmployee" =>
          \/ aggLast.err # NilErr /\ emp = NoEmployee
          \/ /\ aggLast.err = NilErr /\ emp # NoEmployee
             /\ Deref(emp).Status = EmployeeStatusActive
    /\ emp # NoEmployee =>
          /\ Deref(emp).ID # UuidNil
          /\ FieldValidatorsPass(emp, now)
          /\ EmployeeValidate(emp, now) = NilErr

\* A mutator refused an invalid argument on a constructed employee
C3_Witness ==
    /\ emp # NoEmployee
    /\ aggLast.op = "UpdateContactInfo"
    /\ aggLast.err = "email format is invalid"
    /\ Deref(emp).Salary = 60000

C12_DocumentedTransitionsOnly ==
    [][ (aggLast'.op = "ChangeStatus" /\ emp # NoEmployee) =>
          ((aggLast'.err = NilErr) <=>
              <<Deref(emp).Status, aggLast'.args[1]>> \in
                  { <<EmployeeStatusActive, EmployeeStatusTerminated>>,
                    <<EmployeeStatusActive, EmployeeStatusOnLeave>>,
                    <<EmployeeStatusOnLeave, EmployeeStatusActive>> }) ]_vars

\* C26: Address.Validate accepts an address whose five fields are all empty,
\* rejects every address with at least one but not all of the five fields
\* non-empty, and accepts an address with all five non-empty in which each
\* field meets its length or format rule.
FilledFields(a) == {f \in AddressFieldNames : a[f] # <<>>}

MeetsFieldRules(a) ==
    /\ Len(a.Street) \in 5..200
    /\ Len(a.City) \in 2..100
    /\ Len(a.State) \in 2..50
    /\ usZip(a.PostalCode) \/ caPostal(a.PostalCode)
          \/ generalPostal(ToUpper(RemoveSpaces(a.PostalCode)))
    /\ Len(a.Country) \in 2..100

C23_SetManagerRejectsSelfOnly ==
    [][ (aggLast'.op = "SetManager" /\ emp # NoEmployee) =>
          LET id == aggLast'.args[1] IN
          IF id # NilManager /\ Deref(id) = Deref(emp).ID
          THEN /\ aggLast'.err = "employee cannot be their own manager"
               /\ Deref(emp').ManagerID = Deref(emp).ManagerID
          ELSE /\ aggLast'.err = NilErr
               /\ Deref(emp').ManagerID = id ]_vars

\* The employee has a manager and was then asked to be their own: refused,
\* the manager kept
C23_Witness ==
    /\ emp # NoEmployee
    /\ aggLast.op = "SetManager"
    /\ aggLast.args = <<Ptr(Deref(emp).ID)>>
    /\ aggLast.err = "employee cannot be their own manager"
    /\ Deref(emp).ManagerID = Ptr(2)

-----------------------------------------------------------------------------
(* AuditLog (cmd/migrate/main.go 391-681) *)

\* len(m) of a map
MapLen(m) == Cardinality(DOMAIN m)

isValidOperationFormat(operation) ==
    AllIn(operation, AsciiLetters \cup Digits \cup {"_", ":"})

validateOperation(operation) ==
    IF operation = <<>> THEN "operation cannot be empty"
    ELSE IF len(operation) > 50 THEN "operation cannot exceed 50 characters"
    ELSE IF ~isValidOperationFormat(operation) THEN "operation contains invalid characters"
    ELSE NilErr

validateIPAddress(ip) ==
    IF ip = <<>> THEN "IP address cannot be empty"
    ELSE IF len(ip) > 45 THEN "IP address is too long"
    ELSE IF len(ip) < 7 THEN "IP address is too short"
    ELSE NilErr

\* AuditLog.Validate without the check of the two value maps
AuditLogValidate_NoValuesCheck(a) ==
    FirstErr(<<
        IF a.ID = UuidNil THEN "audit log ID cannot be empty" ELSE NilErr,
        IF a.EmployeeID = UuidNil THEN "employee ID cannot be empty" ELSE NilErr,
        validateOperation(a.Operation),
        IF a.UserID = <<>> THEN "user ID cannot be empty" ELSE NilErr,
        IF a.Timestamp = ZeroTime THEN "timestamp cannot be empty" ELSE NilErr,
        IF a.IPAddress = <<>> THEN "IP address cannot be empty" ELSE NilErr,
        IF validateIPAddress(a.IPAddress) # NilErr
           THEN "invalid IP address: " \o validateIPAddress(a.IPAddress) ELSE NilErr
    >>)

\* AuditLog.Validate on the object a; its ID and Timestamp are fresh
AuditLogValidate(a) ==
    FirstErr(<<
        IF a.ID = UuidNil THEN "audit log ID cannot be empty" ELSE NilErr,
        IF a.EmployeeID = UuidNil THEN "employee ID cannot be empty" ELSE NilErr,
        validateOperation(a.Operation),
        IF a.UserID = <<>> THEN "user ID cannot be empty" ELSE NilErr,
        IF a.Timestamp = ZeroTime THEN "timestamp cannot be empty" ELSE NilErr,
        IF a.IPAddress = <<>> THEN "IP address cannot be empty" ELSE NilErr,
        IF validateIPAddress(a.IPAddress) # NilErr
           THEN "invalid IP address: " \o validateIPAddress(a.IPAddress) ELSE NilErr,
        IF MapLen(a.OldValues) = 0 /\ MapLen(a.NewValues) = 0
           THEN "at least one of old values or new values must be provided" ELSE NilErr
    >>)

\* NewAuditLog at time t: [log, err]; the log's own UUID is drawn fresh (t >= 1)
NewAuditLog(employeeID, operation, userID, oldValues, newValues, ipAddress, userAgent, t) ==
    LET auditLog == [ID |-> t, EmployeeID |-> employeeID, Operation |-> operation,
                     UserID |-> userID, Timestamp |-> t,
                     OldValues |-> oldValues, NewValues |-> newValues,
                     IPAddress |-> ipAddress, UserAgent |-> userAgent]
    IN  IF AuditLogValidate(auditLog) # NilErr
        THEN [log |-> NilAuditLog, err |-> AuditLogValidate(auditLog)]
        ELSE [log |-> Ptr(auditLog), err |-> NilErr]

IsCreation(a) == MapLen(a.OldValues) = 0 /\ MapLen(a.NewValues) > 0
IsDeletion(a) == MapLen(a.NewValues) = 0 /\ MapLen(a.OldValues) > 0
IsUpdate(a) == MapLen(a.OldValues) > 0 /\ MapLen(a.NewValues) > 0

\* A value held in a map[string]interface{} is [type, v]: its dynamic type
\* and its value.  Go compares two interface values with == only when the
\* dynamic type is comparable; maps and slices are not.
GoUncomparable == {"map", "slice"}

\* The decimal digits of a whole number n >= 0
RECURSIVE DecimalDigits(_)
DecimalDigits(n) ==
    IF n < 10 THEN <<ToString(n)>>
    ELSE DecimalDigits(n \div 10) \o <<ToString(n % 10)>>

\* fmt.Sprintf("%v", x) for a string and for a whole number below 10^6 held
\* as int or float64 (%v prints such a float64 without point or exponent);
\* values of other types are only ever formatted against their own type
GoFormat(x) ==
    IF x.type = "string" THEN x.v
    ELSE IF x.type \in {"float64", "int"} THEN DecimalDigits(x.v)
    ELSE <<x.type, "value">>

\* valuesEqual panics on a == b when both hold the same uncomparable type
valuesEqualPanics(a, b) == a.type = b.type /\ a.type \in GoUncomparable

\* valuesEqual when it does not panic: a == b, else equal strings, else equal
\* %v renderings of two non-nil values
valuesEqual(a, b) ==
    IF a.type = b.type THEN a.v = b.v
    ELSE IF a.type = "nil" \/ b.type = "nil" THEN FALSE
    ELSE GoFormat(a) = GoFormat(b)

\* The keys of both maps that GetChangedFields compares
CommonFields(a) == DOMAIN a.OldValues \cap DOMAIN a.NewValues

\* GetChangedFields: [panicked, fields].  The loop visits every key of
\* OldValues, so that it panics whenever one common key holds uncomparable
\* values; fields is the set of the names returned (their order is that of
\* the map iteration).
GetChangedFields(a) ==
    [panicked |-> \E f \in CommonFields(a) :
                      valuesEqualPanics(a.OldValues[f], a.NewValues[f]),
     fields |-> {f \in CommonFields(a) : ~valuesEqual(a.OldValues[f], a.NewValues[f])}
                    \cup (DOMAIN a.NewValues \ DOMAIN a.OldValues)]

\* The nil interface value
NilValue == [type |-> "nil", v |-> <<>>]

\* GetFieldChange: [panicked, oldValue, newValue, changed]; it compares the
\* two values only when the field is a key of both maps
GetFieldChange(a, field) ==
    LET oldExists == field \in DOMAIN a.OldValues
        newExists == field \in DOMAIN a.NewValues
    IN  IF ~oldExists /\ ~newExists
        THEN [panicked |-> FALSE, oldValue |-> NilValue, newValue |-> NilValue,
              changed |-> FALSE]
        ELSE IF ~oldExists
        THEN [panicked |-> FALSE, oldValue |-> NilValue, newValue |-> a.NewValues[field],
              changed |-> TRUE]
        ELSE IF ~newExists
        THEN [panicked |-> FALSE, oldValue |-> a.OldValues[field], newValue |-> NilValue,
              changed |-> TRUE]
        ELSE IF valuesEqualPanics(a.OldValues[field], a.NewValues[field])
        THEN [panicked |-> TRUE, oldValue |-> NilValue, newValue |-> NilValue,
              changed |-> FALSE]
        ELSE [panicked |-> FALSE, oldValue |-> a.OldValues[field],
              newValue |-> a.NewValues[field],
              changed |-> ~valuesEqual(a.OldValues[field], a.NewValues[field])]

\* The sets of names a summary can show: all of them when there are at most
\* three, else the first three of first (in any order) followed by rest
FirstThree(first, rest) ==
    IF Cardinality(first) + Cardinality(rest) <= 3 THEN {first \cup rest}
    ELSE IF Cardinality(first) >= 3
    THEN {n \in SUBSET first : Cardinality(n) = 3}
    ELSE {first \cup n : n \in {m \in SUBSET rest : Cardinality(m) = 3 - Cardinality(first)}}

\* GetChangeSummary: the set of its possible results [panicked, prefix, named,
\* more], one for each order in which the maps can be ranged over
GetChangeSummary(a) ==
    IF MapLen(a.OldValues) = 0
    THEN {[panicked |-> FALSE, prefix |-> "Created: ", named |-> n,
           more |-> MapLen(a.NewValues) - Cardinality(n)] :
             n \in FirstThree(DOMAIN a.NewValues, {})}
    ELSE IF MapLen(a.NewValues) = 0
    THEN {[panicked |-> FALSE, prefix |-> "Deleted: ", named |-> n,
           more |-> MapLen(a.OldValues) - Cardinality(n)] :
             n \in FirstThree(DOMAIN a.OldValues, {})}
    ELSE IF GetChangedFields(a).panicked
    THEN {[panicked |-> TRUE, prefix |-> "", named |-> {}, more |-> 0]}
    ELSE {[panicked |-> FALSE, prefix |-> "Updated: ", named |-> n,
           more |-> Cardinality(GetChangedFields(a).fields) - Cardinality(n)] :
             n \in FirstThree(GetChangedFields(a).fields \cap CommonFields(a),
                              DOMAIN a.NewValues \ DOMAIN a.OldValues)}

-----------------------------------------------------------------------------
(* Domain events and the dispatcher (events.go 73-339) *)

NewEmployeeCreatedEvent(e) ==
    [Type |-> "employee.created", AggregateID |-> e.ID, Version |-> 1,
     Data |-> [employeeId |-> e.ID, firstName |-> e.FirstName, lastName |-> e.LastName,
               email |-> e.Email, department |-> e.Department, position |-> e.Position,
               salary |-> e.Salary, status |-> e.Status,
               hasManager |-> e.ManagerID # NilManager,
               hasAddress |-> e.Address # NilAddress],
     Employee |-> e]

NewEmployeeUpdatedEvent(e, changedFields) ==
    [Type |-> "employee.updated", AggregateID |-> e.ID, Version |-> 1,
     Data |-> [employeeId |-> e.ID, changedFields |-> changedFields,
               firstName |-> e.FirstName, lastName |-> e.LastName,
               email |-> e.Email, department |-> e.Department, position |-> e.Position,
               salary |-> e.Salary, status |-> e.Status],
     Employee |-> e, ChangedFields |-> changedFields]

NewEmployeeDeletedEvent(employeeID, oldData) ==
    [Type |-> "employee.deleted", AggregateID |-> employeeID, Version |-> 1,
     Data |-> [employeeId |-> employeeID, oldData |-> oldData],
     EmployeeID |-> employeeID, OldData |-> oldData]

NewEmployeeStatusChangedEvent(employeeID, oldStatus, newStatus, changedBy) ==
    [Type |-> "employee.status_changed", AggregateID |-> employeeID, Version |-> 1,
     Data |-> [employeeId |-> employeeID, oldStatus |-> oldStatus,
               newStatus |-> newStatus, changedBy |-> changedBy],
     EmployeeID |-> employeeID, OldStatus |-> oldStatus, NewStatus |-> newStatus,
     ChangedBy |-> changedBy]

NewEmployeeSalaryChangedEvent(employeeID, oldSalary, newSalary, changedBy) ==
    LET changeType == IF newSalary > oldSalary THEN "increase"
                      ELSE IF newSalary < oldSalary THEN "decrease"
                      ELSE "same"
    IN  [Type |-> "employee.salary_changed", AggregateID |-> employeeID, Version |-> 1,
         Data |-> [employeeId |-> employeeID, oldSalary |-> oldSalary,
                   newSalary |-> newSalary, changeType |-> changeType,
                   changeAmount |-> newSalary - oldSalary, changedBy |-> changedBy],
         EmployeeID |-> employeeID, OldSalary |-> oldSalary, NewSalary |-> newSalary,
         ChangeType |-> changeType, ChangedBy |-> changedBy]

\* NewAuditLogCreatedEvent on a non-nil log (a nil log is dereferenced: a panic)
NewAuditLogCreatedEvent(a) ==
    [Type |-> "audit_log.created", AggregateID |-> a.ID, Version |-> 1,
     Data |-> [auditLogId |-> a.ID, employeeId |-> a.EmployeeID,
               operation |-> a.Operation, userId |-> a.UserID,
               ipAddress |-> a.IPAddress, isCreation |-> IsCreation(a),
               isDeletion |-> IsDeletion(a), isUpdate |-> IsUpdate(a)],
     AuditLog |-> a]

\* The handlers Dispatch invokes for an event of type ty, in order.  A handler
\* is [name, canHandle]: the set of types its CanHandle accepts.
RECURSIVE Invoked(_, _)
Invoked(hs, ty) ==
    IF hs = <<>> THEN <<>>
    ELSE (IF ty \in Head(hs).canHandle THEN <<Head(hs).name>> ELSE <<>>)
            \o Invoked(Tail(hs), ty)

\* The handlers invoked when the loop of Dispatch stops at the first handler
\* that returns an error
RECURSIVE InvokedUntilError(_, _)
InvokedUntilError(inv, failing) ==
    IF inv = <<>> THEN <<>>
    ELSE IF Head(inv) \in failing THEN <<Head(inv)>>
    ELSE <<Head(inv)>> \o InvokedUntilError(Tail(inv), failing)

\* Dispatch returning at the first handler error instead of collecting it
Dispatch_ShortCircuit(reg, event, failing) ==
    IF event.Type \notin DOMAIN reg
    THEN [invoked |-> <<>>, err |-> NilErr]
    ELSE LET inv == InvokedUntilError(Invoked(reg[event.Type], event.Type), failing)
             errs == Cardinality({k \in 1..Len(inv) : inv[k] \in failing})
         IN  [invoked |-> inv,
              err |-> IF errs > 0
                      THEN "event dispatch had " \o ToString(errs) \o " errors"
                      ELSE NilErr]

\* Dispatch calling Handle without asking CanHandle
Dispatch_NoCanHandle(reg, event, failing) ==
    IF event.Type \notin DOMAIN reg
    THEN [invoked |-> <<>>, err |-> NilErr]
    ELSE LET inv == [k \in 1..Len(reg[event.Type]) |-> reg[event.Type][k].name]
             errs == Cardinality({k \in 1..Len(inv) : inv[k] \in failing})
         IN  [invoked |-> inv,
              err |-> IF errs > 0
                      THEN "event dispatch had " \o ToString(errs) \o " errors"
                      ELSE NilErr]

\* RegisterHandler: the registry with handler appended under eventType
RegisterHandler(reg, eventType, handler) ==
    [ty \in DOMAIN reg \cup {eventType} |->
        IF ty \notin DOMAIN reg THEN <<handler>>
        ELSE IF ty = eventType THEN Append(reg[ty], handler)
        ELSE reg[ty]]

\* Dispatch with registry reg; the handlers named in failing return an error.
\* [invoked, err]
Dispatch(reg, event, failing) ==
    IF event.Type \notin DOMAIN reg
    THEN [invoked |-> <<>>, err |-> NilErr]
    ELSE LET inv == Invoked(reg[event.Type], event.Type)
             errs == Cardinality({k \in 1..Len(inv) : inv[k] \in failing})
         IN  [invoked |-> inv,
              err |-> IF errs > 0
                      THEN "event dispatch had " \o ToString(errs) \o " errors"
                      ELSE NilErr]

-----------------------------------------------------------------------------
(* EmployeeRepository (events.go 365-390): an interface of which the          *)
(* repository holds no implementation.  It is modelled as a store keyed by   *)
(* ID whose reads return copies of the stored rows, as a database-backed     *)
(* repository does.                                                         *)

RepoGetByID(r, id) == IF id \in DOMAIN r THEN Ptr(r[id]) ELSE NoEmployee
RepoExistsByEmail(r, email) == \E i \in DOMAIN r : r[i].Email = email
RepoExistsByID(r, id) == id \in DOMAIN r
RepoFindByManagerID(r, managerID) == {i \in DOMAIN r : r[i].ManagerID = Ptr(managerID)}
RepoCreate(r, e) == [i \in DOMAIN r \cup {e.ID} |-> IF i = e.ID THEN e ELSE r[i]]
RepoUpdate(r, e) == [i \in DOMAIN r |-> IF i = e.ID THEN e ELSE r[i]]
RepoDelete(r, id) == [i \in DOMAIN r \ {id} |-> r[i]]

-----------------------------------------------------------------------------
(* EmployeeService (employee.go 453-1056).  A call is evaluated on the         *)
(* repository contents r at time t with the set faults of collaborators       *)
(* that fail during the call: "read" (GetByID / Exists / Find), "write" (the  *)
(* primary Create / Update / Delete), "audit" (AuditLogRepository.Create),    *)
(* "event" (EventStoreRepository.SaveEvent), "handler" (the handlers named    *)
(* in FailingHandlers).  Its value is [repo, err, ret, panicked, trace]: the  *)
(* repository afterwards, the returned error and employee, whether the call   *)
(* panicked instead of returning, and the writes it asked of collaborators.   *)

FailingHandlers == {"h2"}
RepoError == "repository error"

\* return nil, err before any write
Fail(r, err) ==
    [repo |-> r, err |-> err, ret |-> NoEmployee, panicked |-> FALSE, trace |-> <<>>]

\* FailedWrite with the error of the primary write printed as a warning
FailedWrite_Swallowed(r, call, msg) ==
    [repo |-> r, err |-> NilErr, ret |-> NoEmployee,
     panicked |-> FALSE, trace |-> <<[call |-> call, ok |-> FALSE]>>]

\* the primary write returned an error: if err != nil { return nil, fmt.Errorf(...) }
FailedWrite(r, call, msg) ==
    [repo |-> r, err |-> msg \o ": " \o RepoError, ret |-> NoEmployee,
     panicked |-> FALSE, trace |-> <<[call |-> call, ok |-> FALSE]>>]

\* Succeed with the advisory failures returned to the caller and rolled back
Succeed_Fatal(r, ret, trace) ==
    [repo |-> r, err |-> IF \E k \in 1..Len(trace) : ~trace[k].ok
                         THEN "advisory write failed" ELSE NilErr,
     ret |-> ret, panicked |-> FALSE, trace |-> trace]

\* errors of the audit log, the event store and the dispatcher are printed as
\* warnings; the call returns the employee and a nil error
Succeed(r, ret, trace) ==
    [repo |-> r, err |-> NilErr, ret |-> ret, panicked |-> FALSE, trace |-> trace]

\* a nil pointer is dereferenced: the call does not return
Panic(r, trace) ==
    [repo |-> r, err |-> "panic: nil pointer dereference", ret |-> NoEmployee,
     panicked |-> TRUE, trace |-> trace]

WriteCall(call) == [call |-> call, ok |-> TRUE]
AuditCall(log, faults) ==
    [call |-> "auditRepo.Create", log |-> log, ok |-> "audit" \notin faults]
SaveCall(event, faults) ==
    [call |-> "eventStore.SaveEvent", event |-> event, ok |-> "event" \notin faults]
DispatchCall(reg, event, faults) ==
    LET d == Dispatch(reg, event, IF "handler" \in faults THEN FailingHandlers ELSE {})
    IN  [call |-> "eventDispatcher.Dispatch", event |-> event,
         invoked |-> d.invoked, ok |-> d.err = NilErr]

\* validateEmployeeCreation without the check that the manager exists
validateEmployeeCreation_NoManagerCheck(r, email, managerID, faults) ==
    IF "read" \in faults THEN "failed to check email uniqueness: " \o RepoError
    ELSE IF RepoExistsByEmail(r, email) THEN ErrEmailAlreadyExists
    ELSE NilErr

validateEmployeeCreation(r, email, managerID, faults) ==
    IF "read" \in faults THEN "failed to check email uniqueness: " \o RepoError
    ELSE IF RepoExistsByEmail(r, email) THEN ErrEmailAlreadyExists
    ELSE IF managerID # NilManager /\ ~RepoExistsByID(r, Deref(managerID))
         THEN ErrManagerNotFound
    ELSE NilErr

\* validateEmployeeUpdate without the check of the email
validateEmployeeUpdate_NoEmailCheck(r, e) ==
    IF e.ManagerID # NilManager /\ ~RepoExistsByID(r, Deref(e.ManagerID))
    THEN ErrManagerNotFound
    ELSE NilErr

validateEmployeeUpdate(r, e) ==
    LET existing == RepoGetByID(r, e.ID) IN
    IF /\ RepoExistsByEmail(r, e.Email)
       /\ (existing = NoEmployee \/ Deref(existing).Email # e.Email)
    THEN ErrEmailAlreadyExists
    ELSE IF e.ManagerID # NilManager /\ ~RepoExistsByID(r, Deref(e.ManagerID))
         THEN ErrManagerNotFound
    ELSE NilErr

\* validateEmployeeDeletion without the check of the direct reports
validateEmployeeDeletion_NoCheck(r, e) == NilErr

validateEmployeeDeletion(r, e) ==
    IF Cardinality(RepoFindByManagerID(r, e.ID)) > 0
    THEN ErrEmployeeHasDirectReports
    ELSE NilErr

\* A map value that may be missing: <<>> when the key is absent
createEmployeeSnapshot(e) ==
    LET base == [id |-> e.ID, firstName |-> e.FirstName, lastName |-> e.LastName,
                 email |-> e.Email, phone |-> e.Phone, department |-> e.Department,
                 position |-> e.Position, hireDate |-> e.HireDate, salary |-> e.Salary,
                 status |-> e.Status, updatedAt |-> e.UpdatedAt]
        mgr == IF e.ManagerID # NilManager
               THEN [managerId |-> Deref(e.ManagerID)] ELSE <<>>
        adr == IF e.Address # NilAddress
               THEN [address |-> [street |-> Deref(e.Address).Street,
                                  city |-> Deref(e.Address).City,
                                  state |-> Deref(e.Address).State,
                                  postalCode |-> Deref(e.Address).PostalCode,
                                  country |-> Deref(e.Address).Country]]
               ELSE <<>>
    IN  base @@ mgr @@ adr

\* The text of a UUID, and uuid.Parse: [id, err]
UuidString(n) == <<"#", ToString(n)>>
UuidParse(s) ==
    IF \E n \in 0..(MaxIds + 1) : UuidString(n) = s
    THEN [id |-> CHOOSE n \in 0..(MaxIds + 1) : UuidString(n) = s, err |-> NilErr]
    ELSE [id |-> UuidNil, err |-> "invalid UUID format"]

\* A value of an update map is [type, v]; x.(string) succeeds on type "string"
IsString(x) == x.type = "string"

\* data[key].(string) with the result's ok flag discarded
StringField(data, key) ==
    IF key \in DOMAIN data /\ IsString(data[key]) THEN data[key].v ELSE <<>>

parseAddress(data) ==
    NewAddress(StringField(data, "street"), StringField(data, "city"),
               StringField(data, "state"), StringField(data, "postalCode"),
               StringField(data, "country"))

\* case "address" of applyEmployeeUpdates with pa the value of parseAddress
applyAddress(e, pa) ==
    IF pa.err # NilErr
    THEN [employee |-> e, changed |-> <<>>, err |-> "invalid address: " \o pa.err]
    ELSE [employee |-> [e EXCEPT !.Address = pa.addr], changed |-> <<"address">>,
          err |-> NilErr]

\* One iteration of the loop of applyEmployeeUpdates: [employee, changed, err]
applyField(e, field, value) ==
    LET same == [employee |-> e, changed |-> <<>>, err |-> NilErr]
        set(e2) == [employee |-> e2, changed |-> <<field>>, err |-> NilErr]
    IN  CASE field = "firstName" ->
                IF IsString(value) THEN set([e EXCEPT !.FirstName = value.v]) ELSE same
          [] field = "lastName" ->
                IF IsString(value) THEN set([e EXCEPT !.LastName = value.v]) ELSE same
          [] field = "email" ->
                IF IsString(value) THEN set([e EXCEPT !.Email = value.v]) ELSE same
          [] field = "phone" ->
                IF IsString(value) THEN set([e EXCEPT !.Phone = value.v]) ELSE same
          [] field = "department" ->
                IF IsString(value) THEN set([e EXCEPT !.Department = value.v]) ELSE same
          [] field = "position" ->
                IF IsString(value) THEN set([e EXCEPT !.Position = value.v]) ELSE same
          [] field = "salary" ->
                IF value.type = "float64" THEN set([e EXCEPT !.Salary = value.v]) ELSE same
          [] field = "managerId" ->
                IF ~IsString(value) THEN same
                ELSE IF value.v = <<>> THEN set([e EXCEPT !.ManagerID = NilManager])
                ELSE IF UuidParse(value.v).err # NilErr
                     THEN [employee |-> e, changed |-> <<>>,
                           err |-> "invalid manager ID: " \o UuidParse(value.v).err]
                ELSE set([e EXCEPT !.ManagerID = Ptr(UuidParse(value.v).id)])
          [] field = "address" ->
                IF value.type # "map" THEN same
                ELSE applyAddress(e, parseAddress(value.v))
          [] OTHER -> same

\* applyEmployeeUpdates; order is the order in which range visits the map's
\* keys, step the value of one iteration; UpdatedAt is set after the loop
RECURSIVE applyLoop(_, _, _, _, _)
RECURSIVE applyStep(_, _, _, _, _)
applyStep(step, changed, updates, order, t) ==
    IF step.err # NilErr
    THEN [employee |-> step.employee, changed |-> <<>>, err |-> step.err]
    ELSE applyLoop(step.employee, changed \o step.changed, updates, Tail(order), t)

\* applyEmployeeUpdates stamping the hire date along with UpdatedAt
applyLoop_StampsHireDate(e, changed, updates, order, t) ==
    IF order = <<>>
    THEN [employee |-> [e EXCEPT !.UpdatedAt = t, !.HireDate = t], changed |-> changed,
          err |-> NilErr]
    ELSE applyStep(applyField(e, Head(order), updates[Head(order)]),
                   changed, updates, order, t)

applyLoop(e, changed, updates, order, t) ==
    IF order = <<>>
    THEN [employee |-> [e EXCEPT !.UpdatedAt = t], changed |-> changed, err |-> NilErr]
    ELSE applyStep(applyField(e, Head(order), updates[Head(order)]),
                   changed, updates, order, t)

applyEmployeeUpdates(e, updates, order, t) == applyLoop(e, <<>>, updates, order, t)

createAuditLogForCreation(e, ctx, t) ==
    NewAuditLog(e.ID, OperationCreateEmployee, ctx.userID, NilValues,
                createEmployeeSnapshot(e), ctx.ipAddress, ctx.userAgent, t).log

createAuditLogForUpdate(e, oldValues, newValues, ctx, t) ==
    NewAuditLog(e.ID, OperationUpdateEmployee, ctx.userID, oldValues, newValues,
                ctx.ipAddress, ctx.userAgent, t).log

\* createAuditLogForDeletion passing the snapshot as the new values
createAuditLogForDeletion_SnapshotAsNew(e, oldValues, ctx, t) ==
    NewAuditLog(e.ID, OperationDeleteEmployee, ctx.userID, NilValues, oldValues,
                ctx.ipAddress, ctx.userAgent, t).log

createAuditLogForDeletion(e, oldValues, ctx, t) ==
    NewAuditLog(e.ID, OperationDeleteEmployee, ctx.userID, oldValues, NilValues,
                ctx.ipAddress, ctx.userAgent, t).log

createAuditLogForStatusChange(e, newStatus, ctx, t) ==
    NewAuditLog(e.ID, OperationChangeStatus, ctx.userID,
                [status |-> e.Status], [status |-> newStatus],
                ctx.ipAddress, ctx.userAgent, t).log

createAuditLogForSalaryChange(e, oldSalary, newSalary, ctx, t) ==
    NewAuditLog(e.ID, OperationUpdateSalary, ctx.userID,
                [salary |-> oldSalary], [salary |-> newSalary],
                ctx.ipAddress, ctx.userAgent, t).log

CreateEmployee(r, reg, newId, a, ctx, faults, t) ==
    LET v == validateEmployeeCreation(r, a.email, a.managerID, faults)
        ne == NewEmployee(newId, a, t)
        e == Deref(ne.employee)
        auditLog == createAuditLogForCreation(e, ctx, t)
        event == NewEmployeeCreatedEvent(e)
        trace == <<WriteCall("employeeRepo.Create"), AuditCall(auditLog, faults),
                   SaveCall(event, faults), DispatchCall(reg, event, faults)>>
    IN  IF v # NilErr THEN Fail(r, v)
        ELSE IF ne.err # NilErr THEN Fail(r, "failed to create employee: " \o ne.err)
        ELSE IF "write" \in faults
             THEN FailedWrite(r, "employeeRepo.Create", "failed to save employee")
        ELSE IF auditLog = NilAuditLog
             THEN Panic(RepoCreate(r, e), trace)
        ELSE Succeed(RepoCreate(r, e), ne.employee,
                     Append(trace, SaveCall(NewAuditLogCreatedEvent(Deref(auditLog)), faults)))

\* UpdateEmployee from the validation of the updated employee on (employee.go
\* 557-586); ap is the value of applyEmployeeUpdates, oldValues the snapshot
\* taken before it
saveUpdatedEmployee(r, reg, oldValues, ap, ctx, faults, t) ==
    LET v == validateEmployeeUpdate(r, ap.employee)
        auditLog == createAuditLogForUpdate(ap.employee, oldValues,
                                            createEmployeeSnapshot(ap.employee), ctx, t)
        event == NewEmployeeUpdatedEvent(ap.employee, ap.changed)
    IN  IF v # NilErr THEN Fail(r, v)
        ELSE IF "write" \in faults
             THEN FailedWrite(r, "employeeRepo.Update", "failed to update employee")
        ELSE Succeed(RepoUpdate(r, ap.employee), Ptr(ap.employee),
                     <<WriteCall("employeeRepo.Update"), AuditCall(auditLog, faults),
                       SaveCall(event, faults), DispatchCall(reg, event, faults)>>)

\* UpdateEmployee once the employee is loaded (employee.go 549-555)
updateLoadedEmployee(r, reg, oldValues, ap, ctx, faults, t) ==
    IF ap.err # NilErr THEN Fail(r, ap.err)
    ELSE saveUpdatedEmployee(r, reg, oldValues, ap, ctx, faults, t)

UpdateEmployee(r, reg, id, updates, order, ctx, faults, t) ==
    IF "read" \in faults THEN Fail(r, "failed to get employee: " \o RepoError)
    ELSE IF RepoGetByID(r, id) = NoEmployee THEN Fail(r, ErrEmployeeNotFound)
    ELSE updateLoadedEmployee(r, reg, createEmployeeSnapshot(r[id]),
                              applyEmployeeUpdates(r[id], updates, order, t),
                              ctx, faults, t)

\* DeleteEmployee taking a missing employee for an employee already deleted
DeleteEmployee_MissingIsDone(r, reg, id, ctx, faults, t) ==
    LET got == RepoGetByID(r, id)
        e == Deref(got)
        v == validateEmployeeDeletion(r, e)
        oldValues == createEmployeeSnapshot(e)
        auditLog == createAuditLogForDeletion(e, oldValues, ctx, t)
        event == NewEmployeeDeletedEvent(id, oldValues)
    IN  IF "read" \in faults THEN Fail(r, "failed to get employee: " \o RepoError)
        ELSE IF got = NoEmployee THEN Succeed(r, NoEmployee, <<>>)
        ELSE IF v # NilErr THEN Fail(r, v)
        ELSE IF "write" \in faults
             THEN FailedWrite(r, "employeeRepo.Delete", "failed to delete employee")
        ELSE Succeed(RepoDelete(r, id), NoEmployee,
                     <<WriteCall("employeeRepo.Delete"), AuditCall(auditLog, faults),
                       SaveCall(event, faults), DispatchCall(reg, event, faults)>>)

DeleteEmployee(r, reg, id, ctx, faults, t) ==
    LET got == RepoGetByID(r, id)
        e == Deref(got)
        v == validateEmployeeDeletion(r, e)
        oldValues == createEmployeeSnapshot(e)
        auditLog == createAuditLogForDeletion(e, oldValues, ctx, t)
        event == NewEmployeeDeletedEvent(id, oldValues)
    IN  IF "read" \in faults THEN Fail(r, "failed to get employee: " \o RepoError)
        ELSE IF got = NoEmployee THEN Fail(r, ErrEmployeeNotFound)
        ELSE IF v # NilErr THEN Fail(r, v)
        ELSE IF "write" \in faults
             THEN FailedWrite(r, "employeeRepo.Delete", "failed to delete employee")
        ELSE Succeed(RepoDelete(r, id), NoEmployee,
                     <<WriteCall("employeeRepo.Delete"), AuditCall(auditLog, faults),
                       SaveCall(event, faults), DispatchCall(reg, event, faults)>>)

ChangeEmployeeStatus(r, reg, id, newStatus, ctx, faults, t) ==
    LET got == RepoGetByID(r, id)
        cs == ChangeStatus(Deref(got), newStatus, t)
        e == Deref(cs.employee)
        \* the audit log and the event read employee.Status after ChangeStatus
        auditLog == createAuditLogForStatusChange(e, newStatus, ctx, t)
        event == NewEmployeeStatusChangedEvent(id, e.Status, newStatus, ctx.userID)
    IN  IF "read" \in faults THEN Fail(r, "failed to get employee: " \o RepoError)
        ELSE IF got = NoEmployee THEN Fail(r, ErrEmployeeNotFound)
        ELSE IF cs.err # NilErr THEN Fail(r, cs.err)
        ELSE IF "write" \in faults
             THEN FailedWrite(r, "employeeRepo.Update", "failed to update employee")
        ELSE Succeed(RepoUpdate(r, e), Ptr(e),
                     <<WriteCall("employeeRepo.Update"), AuditCall(auditLog, faults),
                       SaveCall(event, faults), DispatchCall(reg, event, faults)>>)

\* UpdateEmployeeSalary dispatching the event only once it is saved
UpdateEmployeeSalary_DispatchOnSaved(r, reg, id, newSalary, ctx, faults, t) ==
    LET got == RepoGetByID(r, id)
        oldSalary == Deref(got).Salary
        us == UpdateSalary(Deref(got), newSalary, t)
        e == Deref(us.employee)
        auditLog == createAuditLogForSalaryChange(e, oldSalary, newSalary, ctx, t)
        event == NewEmployeeSalaryChangedEvent(id, oldSalary, newSalary, ctx.userID)
    IN  IF "read" \in faults THEN Fail(r, "failed to get employee: " \o RepoError)
        ELSE IF got = NoEmployee THEN Fail(r, ErrEmployeeNotFound)
        ELSE IF us.err # NilErr THEN Fail(r, us.err)
        ELSE IF "write" \in faults
             THEN FailedWrite(r, "employeeRepo.Update", "failed to update employee")
        ELSE Succeed(RepoUpdate(r, e), Ptr(e),
                     <<WriteCall("employeeRepo.Update"), AuditCall(auditLog, faults),
                       SaveCall(event, faults)>>
                     \o IF "event" \in faults THEN <<>>
                        ELSE <<DispatchCall(reg, event, faults)>>)

UpdateEmployeeSalary(r, reg, id, newSalary, ctx, faults, t) ==
    LET got == RepoGetByID(r, id)
        oldSalary == Deref(got).Salary
        us == UpdateSalary(Deref(got), newSalary, t)
        e == Deref(us.employee)
        auditLog == createAuditLogForSalaryChange(e, oldSalary, newSalary, ctx, t)
        event == NewEmployeeSalaryChangedEvent(id, oldSalary, newSalary, ctx.userID)
    IN  IF "read" \in faults THEN Fail(r, "failed to get employee: " \o RepoError)
        ELSE IF got = NoEmployee THEN Fail(r, ErrEmployeeNotFound)
        ELSE IF us.err # NilErr THEN Fail(r, us.err)
        ELSE IF "write" \in faults
             THEN FailedWrite(r, "employeeRepo.Update", "failed to update employee")
        ELSE Succeed(RepoUpdate(r, e), Ptr(e),
                     <<WriteCall("employeeRepo.Update"), AuditCall(auditLog, faults),
                       SaveCall(event, faults), DispatchCall(reg, event, faults)>>)

\* The value of the call op(args) made on r at time t with the given faults
ServiceCall(r, reg, nid, t, op, args, faults) ==
    CASE op = "CreateEmployee" ->
            CreateEmployee(r, reg, nid + 1, args.a, args.ctx, faults, t)
      [] op = "UpdateEmployee" ->
            UpdateEmployee(r, reg, args.id, args.updates, args.order, args.ctx, faults, t)
      [] op = "DeleteEmployee" ->
            DeleteEmployee(r, reg, args.id, args.ctx, faults, t)
      [] op = "ChangeEmployeeStatus" ->
            ChangeEmployeeStatus(r, reg, args.id, args.newStatus, args.ctx, faults, t)
      [] op = "UpdateEmployeeSalary" ->
            UpdateEmployeeSalary(r, reg, args.id, args.newSalary, args.ctx, faults, t)

-----------------------------------------------------------------------------
(* SpecSvc: sequential calls of EmployeeService, every collaborator working.  *)
(* SpecFault: the same calls with collaborators that fail and with request    *)
(* metadata the audit log rejects.                                            *)

\* The handlers registered before the service takes calls
WiredHandlers ==
    [ty \in {"employee.created", "employee.updated", "employee.deleted",
             "employee.status_changed", "employee.salary_changed"} |->
        <<[name |-> "h1", canHandle |-> {ty}], [name |-> "h2", canHandle |-> {ty}]>>]

CtxOk == [userID |-> UserU1, ipAddress |-> IpOk, userAgent |-> <<"u","a">>]
CtxNoUser == [CtxOk EXCEPT !.userID = <<>>]
CtxShortIp == [CtxOk EXCEPT !.ipAddress = IpShort]

Str(v) == [type |-> "string", v |-> v]
Num(v) == [type |-> "float64", v |-> v]
MapVal(v) == [type |-> "map", v |-> v]

AddrMapOk == [street |-> Str(<<" ","1"," ","E","l","m">>), city |-> Str(<<"L","A">>),
              state |-> Str(<<"C","A">>), postalCode |-> Str(<<"9","0","0","0","1">>),
              country |-> Str(<<"U","S">>)]
AddrMapPartial == [street |-> Str(<<"1"," ","E","l","m">>), city |-> Num(5)]

SvcInit ==
    /\ emp = NoEmployee
    /\ aggLast = NoCall
    /\ now = 0
    /\ nextId = 0
    /\ repo = <<>>
    /\ last = NoCall
    /\ handlers = WiredHandlers
    /\ pc = <<>>
    /\ loc = <<>>
    /\ urepo = <<>>
    /\ NoUserObject

\* The IDs a caller may name: those handed out, and one that never was
CallIds == 1..(MaxIds + 1)

\* One call with result res: the clock has advanced, the repository and the
\* result are those of the call; a UUID is used up when the new employee is
\* stored
SvcCall(op, args, faults, res) ==
    /\ now < MaxCalls
    /\ \E r \in {res} :
          /\ now' = now + 1
          /\ repo' = r.repo
          /\ nextId' = IF DOMAIN r.repo \subseteq DOMAIN repo THEN nextId ELSE nextId + 1
          /\ last' = [op |-> op, args |-> args, faults |-> faults, err |-> r.err,
                      ret |-> r.ret, panicked |-> r.panicked, trace |-> r.trace]
          /\ UNCHANGED <<emp, aggLast, handlers, pc, loc, urepo, userVars>>

\* env is the request metadata of a call and the collaborators failing in it
Env(ctx, faults) == [ctx |-> ctx, faults |-> faults]

SvcCreateEmployee(argSet, envs) ==
    /\ nextId < MaxIds
    /\ \E a \in argSet, env \in envs :
          SvcCall("CreateEmployee", [a |-> a, ctx |-> env.ctx], env.faults,
                  CreateEmployee(repo, handlers, nextId + 1, a, env.ctx, env.faults,
                                 now + 1))

\* maps is a sequence of [updates, order]
SvcUpdateEmployee(maps, envs) ==
    \E id \in CallIds, k \in 1..Len(maps), env \in envs :
        SvcCall("UpdateEmployee",
                [id |-> id, updates |-> maps[k].updates, order |-> maps[k].order,
                 ctx |-> env.ctx], env.faults,
                UpdateEmployee(repo, handlers, id, maps[k].updates, maps[k].order,
                               env.ctx, env.faults, now + 1))

SvcDeleteEmployee(envs) ==
    \E id \in CallIds, env \in envs :
        SvcCall("DeleteEmployee", [id |-> id, ctx |-> env.ctx], env.faults,
                DeleteEmployee(repo, handlers, id, env.ctx, env.faults, now + 1))

SvcChangeEmployeeStatus(statuses, envs) ==
    \E id \in CallIds, st \in statuses, env \in envs :
        SvcCall("ChangeEmployeeStatus",
                [id |-> id, newStatus |-> st, ctx |-> env.ctx], env.faults,
                ChangeEmployeeStatus(repo, handlers, id, st, env.ctx, env.faults,
                                     now + 1))

SvcUpdateEmployeeSalary(salaries, envs) ==
    \E id \in CallIds, sal \in salaries, env \in envs :
        SvcCall("UpdateEmployeeSalary",
                [id |-> id, newSalary |-> sal, ctx |-> env.ctx], env.faults,
                UpdateEmployeeSalary(repo, handlers, id, sal, env.ctx, env.faults,
                                     now + 1))

\* Inputs of SpecSvc
One(field, value) == [updates |-> (field :> value), order |-> <<field>>]
Two(f1, v1, f2, v2) == [updates |-> (f1 :> v1) @@ (f2 :> v2), order |-> <<f1, f2>>]

SvcEnvs == {Env(CtxOk, {})}

SvcCreateArgs ==
    { [BaseArgs EXCEPT !.email = em, !.managerID = m] :
         em \in {EmailA, EmailB}, m \in {NilManager, Ptr(1), Ptr(2)} }
    \cup { [BaseArgs EXCEPT !.email = EmailB, !.address = AddrOk],
           [BaseArgs EXCEPT !.firstName = NameOneByte],
           [BaseArgs EXCEPT !.salary = 0] }

SvcUpdateMaps ==
    << One("firstName", Str(NameOneByte)),
       One("email", Str(EmailA)),
       One("email", Str(EmailB)),
       One("email", Str(EmailNoAt)),
       One("salary", Num(60000)),
       One("salary", Num(0)),
       One("salary", Str(<<"6">>)),
       One("managerId", Str(<<>>)),
       One("managerId", Str(UuidString(1))),
       One("managerId", Str(UuidString(2))),
       One("managerId", Str(<<"x">>)),
       One("address", MapVal(AddrMapOk)),
       One("address", MapVal(AddrMapPartial)),
       One("nickname", Str(NameJo)),
       Two("position", Str(PosQA), "department", Str(DeptRnD)),
       Two("department", Str(DeptRnD), "position", Str(PosQA)),
       Two("lastName", Str(NameJo), "phone", Str(PhoneOk)) >>

SvcNext ==
    \/ SvcCreateEmployee(SvcCreateArgs, SvcEnvs)
    \/ SvcUpdateEmployee(SvcUpdateMaps, SvcEnvs)
    \/ SvcDeleteEmployee(SvcEnvs)
    \/ SvcChangeEmployeeStatus(StatusInputs, SvcEnvs)
    \/ SvcUpdateEmployeeSalary(SalaryInputs, SvcEnvs)

SpecSvc == SvcInit /\ [][SvcNext]_vars

\* Inputs of SpecFault: the advisory collaborators fail in every combination
\* with valid metadata; the reads and the primary write fail; the metadata is
\* one the audit log rejects
AdvisoryFaults == {"audit", "event", "handler"}
FaultSets == (SUBSET AdvisoryFaults) \cup {{"read"}, {"write"}, {"write"} \cup AdvisoryFaults}
FaultEnvs ==
    {Env(CtxOk, f) : f \in FaultSets}
    \cup {Env(c, f) : c \in {CtxNoUser, CtxShortIp}, f \in {{}, AdvisoryFaults}}
FaultCreateArgs == {BaseArgs, [BaseArgs EXCEPT !.email = EmailB, !.managerID = Ptr(1)]}
FaultUpdateMaps == << One("salary", Num(60000)), One("email", Str(EmailB)) >>

FaultNext ==
    \/ SvcCreateEmployee(FaultCreateArgs, FaultEnvs)
    \/ SvcUpdateEmployee(FaultUpdateMaps, FaultEnvs)
    \/ SvcDeleteEmployee(FaultEnvs)
    \/ SvcChangeEmployeeStatus({EmployeeStatusOnLeave, EmployeeStatusTerminated}, FaultEnvs)
    \/ SvcUpdateEmployeeSalary({60000, 0}, FaultEnvs)

SpecFault == SvcInit /\ [][FaultNext]_vars

-----------------------------------------------------------------------------
(* SpecCancel: sequential calls of EmployeeService whose context may be       *)
(* cancelled while the call runs.  The repositories and the event store take  *)
(* the context and, being backed by a database, return its error once it is   *)
(* cancelled; EventDispatcher.Dispatch takes no context (events.go 319).      *)
(* cancelAt = k says the context is cancelled while collaborator call k of    *)
(* the method is in progress: 0 the repository reads before the primary       *)
(* write, 1 the primary write, 2 auditRepo.Create, 3 eventStore.SaveEvent.    *)

CancelPoints == 0..3

CtxCancelAt(k) ==
    [userID |-> CtxOk.userID, ipAddress |-> CtxOk.ipAddress,
     userAgent |-> CtxOk.userAgent, cancelAt |-> k]

\* The collaborators that return the error of the cancelled context
CancelFaults(k) ==
    (IF k <= 0 THEN {"read"} ELSE {})
    \cup (IF k <= 1 THEN {"write"} ELSE {})
    \cup (IF k <= 2 THEN {"audit"} ELSE {})
    \cup {"event"}

CancelEnvs == {Env(CtxOk, {})} \cup {Env(CtxCancelAt(k), CancelFaults(k)) : k \in CancelPoints}

CancelNext ==
    \/ SvcCreateEmployee(FaultCreateArgs, CancelEnvs)
    \/ SvcUpdateEmployee(FaultUpdateMaps, CancelEnvs)
    \/ SvcDeleteEmployee(CancelEnvs)
    \/ SvcChangeEmployeeStatus({EmployeeStatusOnLeave, EmployeeStatusTerminated}, CancelEnvs)
    \/ SvcUpdateEmployeeSalary({60000, 0}, CancelEnvs)

SpecCancel == SvcInit /\ [][CancelNext]_vars

-----------------------------------------------------------------------------
(* User (user.go 14-126, 380-496) and UserService.CreateUser                  *)
(* (user_service.go 36-77, 378-394)                                         *)

UserRoleAdmin == "ADMIN"
UserRoleManager == "MANAGER"
UserRoleViewer == "VIEWER"
RoleIsValid(role) == role \in {UserRoleAdmin, UserRoleManager, UserRoleViewer}

\* ^[a-zA-Z0-9_]+$, not starting or ending with an underscore
validateUsername(username) ==
    IF username = <<>> THEN "username is required"
    ELSE IF len(username) < 3 THEN "username must be at least 3 characters long"
    ELSE IF len(username) > 50 THEN "username cannot exceed 50 characters"
    ELSE IF ~AllIn(username, AsciiLetters \cup Digits \cup {"_"})
         THEN "username can only contain letters, numbers, and underscores"
    ELSE IF username[1] = "_" \/ username[Len(username)] = "_"
         THEN "username cannot start or end with underscore"
    ELSE NilErr

validateUserEmail(email) ==
    IF email = <<>> THEN "email is required"
    ELSE IF len(email) > 100 THEN "email cannot exceed 100 characters"
    ELSE IF ~emailRegex(email) THEN "email format is invalid"
    ELSE NilErr

\* unicode.IsPunct or unicode.IsSymbol
PunctOrSymbol == {"!", "_", "@", ".", "-", "+", "%", "#"}

validatePasswordStrength(password) ==
    IF password = <<>> THEN "password is required"
    ELSE IF len(password) < 8 THEN "password must be at least 8 characters long"
    ELSE IF len(password) > 128 THEN "password cannot exceed 128 characters"
    ELSE IF ~\E k \in 1..Len(password) : password[k] \in AsciiUpper
         THEN "password must contain at least one uppercase letter"
    ELSE IF ~\E k \in 1..Len(password) : password[k] \in AsciiLower \cup {"é"}
         THEN "password must contain at least one lowercase letter"
    ELSE IF ~\E k \in 1..Len(password) : password[k] \in Digits
         THEN "password must contain at least one number"
    ELSE IF ~\E k \in 1..Len(password) : password[k] \in PunctOrSymbol
         THEN "password must contain at least one special character"
    ELSE NilErr

\* bcrypt reads the first 72 bytes of a password: the Blowfish key schedule
\* cycles over the key to fill its 18 32-bit subkeys
BcryptMaxBytes == 72

\* The bytes of password (of ASCII characters) that decide its bcrypt hash
BcryptKey(password) ==
    IF Len(password) > BcryptMaxBytes THEN SubSeq(password, 1, BcryptMaxBytes)
    ELSE password

\* HashPassword returning the password itself
HashPassword_Plain(password) ==
    IF validatePasswordStrength(password) # NilErr
    THEN [hash |-> <<>>, err |-> validatePasswordStrength(password)]
    ELSE [hash |-> password, err |-> NilErr]

\* HashPassword: [hash, err].  The hash is "$2a$" and what bcrypt derives
\* from the key; GenerateFromPassword of a strict build refuses a password
\* longer than 72 bytes, that of other builds hashes its first 72 bytes.
HashPassword(password) ==
    IF validatePasswordStrength(password) # NilErr
    THEN [hash |-> <<>>, err |-> validatePasswordStrength(password)]
    ELSE IF bcryptStrict /\ len(password) > BcryptMaxBytes
    THEN [hash |-> <<>>,
          err |-> "failed to generate password hash: "
                    \o "bcrypt: password length exceeds 72 bytes"]
    ELSE [hash |-> <<"$2a$">> \o BcryptKey(password), err |-> NilErr]

\* CheckPassword: CompareHashAndPassword hashes password with the salt of
\* hash and compares; it puts no limit on the length of password
CheckPassword(password, hash) == hash = <<"$2a$">> \o BcryptKey(password)

UserValidate(u) ==
    FirstErr(<<
        IF u.ID = UuidNil THEN "user ID cannot be empty" ELSE NilErr,
        validateUsername(u.Username),
        validateUserEmail(u.Email),
        IF ~RoleIsValid(u.Role) THEN "invalid user role: " \o u.Role ELSE NilErr
    >>)

\* NewUser with the UUID id drawn at time t: [user, err]
NewUser(id, username, email, password, role, t) ==
    LET user == [ID |-> id, Username |-> username, Email |-> email, Password |-> <<>>,
                 Role |-> role, IsActive |-> TRUE, LastLogin |-> <<>>,
                 CreatedAt |-> t, UpdatedAt |-> t]
    IN  IF UserValidate(user) # NilErr THEN [user |-> <<>>, err |-> UserValidate(user)]
        ELSE IF HashPassword(password).err # NilErr
             THEN [user |-> <<>>,
                   err |-> "failed to hash password: " \o HashPassword(password).err]
        ELSE [user |-> Ptr([user EXCEPT !.Password = HashPassword(password).hash]),
              err |-> NilErr]

\* The methods take the object u and return [user, err]: (a pointer to) the
\* object after the call and the error

Authenticate(u, password) == u.IsActive /\ CheckPassword(password, u.Password)

UpdateLastLogin(u, t) == [u EXCEPT !.LastLogin = Ptr(t), !.UpdatedAt = t]

\* Activate without the check of IsActive
Activate_NoCheck(u, t) ==
    [user |-> Ptr([u EXCEPT !.IsActive = TRUE, !.UpdatedAt = t]), err |-> NilErr]

Activate(u, t) ==
    IF u.IsActive THEN [user |-> Ptr(u), err |-> "user is already active"]
    ELSE [user |-> Ptr([u EXCEPT !.IsActive = TRUE, !.UpdatedAt = t]), err |-> NilErr]

Deactivate(u, t) ==
    IF ~u.IsActive THEN [user |-> Ptr(u), err |-> "user is already inactive"]
    ELSE [user |-> Ptr([u EXCEPT !.IsActive = FALSE, !.UpdatedAt = t]), err |-> NilErr]

ResetPassword(u, newPassword, t) ==
    IF validatePasswordStrength(newPassword) # NilErr
    THEN [user |-> Ptr(u),
          err |-> "new password is too weak: " \o validatePasswordStrength(newPassword)]
    ELSE IF HashPassword(newPassword).err # NilErr
    THEN [user |-> Ptr(u),
          err |-> "failed to hash new password: " \o HashPassword(newPassword).err]
    ELSE [user |-> Ptr([u EXCEPT !.Password = HashPassword(newPassword).hash,
                                 !.UpdatedAt = t]),
          err |-> NilErr]

ChangePassword(u, currentPassword, newPassword, t) ==
    IF ~Authenticate(u, currentPassword)
    THEN [user |-> Ptr(u), err |-> "current password is incorrect"]
    ELSE ResetPassword(u, newPassword, t)

UpdateRole(u, newRole, t) ==
    IF ~RoleIsValid(newRole)
    THEN [user |-> Ptr(u), err |-> "invalid user role: " \o newRole]
    ELSE [user |-> Ptr([u EXCEPT !.Role = newRole, !.UpdatedAt = t]), err |-> NilErr]

\* UserRole.GetPermissions: the permission slice of a role
GetPermissions(role) ==
    IF role = UserRoleAdmin
    THEN <<"employee:read", "employee:write", "employee:delete", "user:read",
           "user:write", "user:delete", "audit:read", "system:admin">>
    ELSE IF role = UserRoleManager
    THEN <<"employee:read", "employee:write", "user:read", "audit:read">>
    ELSE IF role = UserRoleViewer
    THEN <<"employee:read", "audit:read">>
    ELSE <<>>

HasPermission(role, permission) ==
    \E k \in 1..Len(GetPermissions(role)) : GetPermissions(role)[k] = permission

\* CanAccessSalary answering for ADMIN only
CanAccessSalary_AdminOnly(role) == role = UserRoleAdmin

CanAccessSalary(role) == role = UserRoleAdmin \/ role = UserRoleManager
CanManageUsers(role) == role = UserRoleAdmin
CanDeleteEmployees(role) == role = UserRoleAdmin
CanViewAuditLogs(role) == TRUE

\* The User methods of the same names delegate to the user's role
UserCapabilities(u) ==
    [CanAccessSalary |-> CanAccessSalary(u.Role),
     CanManageUsers |-> CanManageUsers(u.Role),
     CanDeleteEmployees |-> CanDeleteEmployees(u.Role),
     CanViewAuditLogs |-> CanViewAuditLogs(u.Role),
     Permissions |-> GetPermissions(u.Role)]

UpdateEmail(u, newEmail, t) ==
    IF validateUserEmail(newEmail) # NilErr
    THEN [user |-> Ptr(u), err |-> "invalid email: " \o validateUserEmail(newEmail)]
    ELSE [user |-> Ptr([u EXCEPT !.Email = newEmail, !.UpdatedAt = t]), err |-> NilErr]

UserExistsByUsername(ur, username) == \E i \in DOMAIN ur : ur[i].Username = username
UserExistsByEmail(ur, email) == \E i \in DOMAIN ur : ur[i].Email = email
UserRepoCreate(ur, u) == [i \in DOMAIN ur \cup {u.ID} |-> IF i = u.ID THEN u ELSE ur[i]]

-----------------------------------------------------------------------------
(* SpecConc: CreateEmployee and CreateUser called by concurrent callers.  A   *)
(* call is a sequence of steps, one for each access to a repository; the     *)
(* steps of different callers interleave.  The persistence layer holds a     *)
(* unique constraint on the employee email, the user name and the user email *)
(* and is the final arbiter of a race.                                       *)

Callers == 1..MaxCallers

\* errors.Is(err, target) on an error that is target or wraps it with %w
ErrorsIs(err, target) ==
    \/ err = target
    \/ \E msg \in {"failed to save employee", "failed to save user"} :
          err = msg \o ": " \o target

\* What Create returns for a row the unique constraint rejects: the error of
\* the database driver, or, in an implementation that translates it, the
\* domain's own error
DriverUniqueViolation == "duplicate key value violates unique constraint"
EmployeeUniqueViolations == {DriverUniqueViolation, ErrEmailAlreadyExists}
UserUniqueViolations ==
    {DriverUniqueViolation, ErrEmailAlreadyExists, ErrUsernameAlreadyExists}

NameBob == <<"b","o","b">>
NameAmy == <<"a","m","y">>
PasswordOk == <<"A","a","1","!","a","a","a","a">>
PasswordWeak == <<"a","a","1","!","a","a","a","a">>

\* The local variables of a caller
NoLoc == [op |-> "none", username |-> <<>>, email |-> <<>>, password |-> <<>>,
          obj |-> <<>>, err |-> NilErr, rejected |-> FALSE]

ConcInit ==
    /\ emp = NoEmployee
    /\ aggLast = NoCall
    /\ now = 0
    /\ nextId = 0
    /\ repo = <<>>
    /\ last = NoCall
    /\ handlers = WiredHandlers
    /\ pc = [c \in Callers |-> "idle"]
    /\ loc = [c \in Callers |-> NoLoc]
    /\ urepo = <<>>
    /\ NoUserObject

ConcUnchanged == UNCHANGED <<emp, aggLast, last, handlers, userVars>>

\* return nil, err
ConcReturn(c, err, rejected) ==
    /\ pc' = [pc EXCEPT ![c] = "done"]
    /\ loc' = [loc EXCEPT ![c].err = err, ![c].rejected = rejected, ![c].obj = <<>>]

\* The service is called
ConcCallCreateEmployee(c) ==
    /\ pc[c] = "idle"
    /\ \E email \in {EmailA, EmailB} :
          loc' = [loc EXCEPT ![c] = [NoLoc EXCEPT !.op = "CreateEmployee",
                                                  !.email = email]]
    /\ pc' = [pc EXCEPT ![c] = "validateEmployeeCreation"]
    /\ UNCHANGED <<repo, urepo, nextId, now>>
    /\ ConcUnchanged

ConcCallCreateUser(c) ==
    /\ pc[c] = "idle"
    /\ \E username \in {NameBob, NameAmy}, email \in {EmailA, EmailB},
          password \in {PasswordOk, PasswordWeak} :
          loc' = [loc EXCEPT ![c] = [NoLoc EXCEPT !.op = "CreateUser",
                                                  !.username = username,
                                                  !.email = email,
                                                  !.password = password]]
    /\ pc' = [pc EXCEPT ![c] = "ExistsByUsername"]
    /\ UNCHANGED <<repo, urepo, nextId, now>>
    /\ ConcUnchanged

\* CreateEmployee, employee.go 488-497: validateEmployeeCreation, NewEmployee
ConcValidateEmployeeCreation(c) ==
    /\ pc[c] = "validateEmployeeCreation"
    /\ now' = now + 1
    /\ nextId' = nextId + 1
    /\ LET v == validateEmployeeCreation(repo, loc[c].email, NilManager, {})
           ne == NewEmployee(nextId + 1, [BaseArgs EXCEPT !.email = loc[c].email], now + 1)
       IN  IF v # NilErr THEN ConcReturn(c, v, FALSE)
           ELSE IF ne.err # NilErr
                THEN ConcReturn(c, "failed to create employee: " \o ne.err, FALSE)
           ELSE /\ pc' = [pc EXCEPT ![c] = "employeeRepo.Create"]
                /\ loc' = [loc EXCEPT ![c].obj = ne.employee]
    /\ UNCHANGED <<repo, urepo>>
    /\ ConcUnchanged

\* CreateEmployee, employee.go 499-502: employeeRepo.Create
ConcEmployeeRepoCreate(c) ==
    /\ pc[c] = "employeeRepo.Create"
    /\ IF RepoExistsByEmail(repo, loc[c].email)
       THEN /\ \E cause \in EmployeeUniqueViolations :
                  ConcReturn(c, "failed to save employee" \o ": " \o cause, TRUE)
            /\ repo' = repo
       ELSE /\ repo' = RepoCreate(repo, Deref(loc[c].obj))
            /\ pc' = [pc EXCEPT ![c] = "advisory"]
            /\ loc' = loc
    /\ UNCHANGED <<urepo, nextId, now>>
    /\ ConcUnchanged

\* CreateUser, user_service.go 379-384: ExistsByUsername
ConcExistsByUsername(c) ==
    /\ pc[c] = "ExistsByUsername"
    /\ IF UserExistsByUsername(urepo, loc[c].username)
       THEN ConcReturn(c, ErrUsernameAlreadyExists, FALSE)
       ELSE /\ pc' = [pc EXCEPT ![c] = "ExistsByEmail"]
            /\ loc' = loc
    /\ UNCHANGED <<repo, urepo, nextId, now>>
    /\ ConcUnchanged

\* CreateUser, user_service.go 386-391 and 48-52: ExistsByEmail, NewUser
ConcExistsByEmail(c) ==
    /\ pc[c] = "ExistsByEmail"
    /\ now' = now + 1
    /\ nextId' = nextId + 1
    /\ LET nu == NewUser(nextId + 1, loc[c].username, loc[c].email, loc[c].password,
                         UserRoleViewer, now + 1)
       IN  IF UserExistsByEmail(urepo, loc[c].email)
           THEN ConcReturn(c, ErrEmailAlreadyExists, FALSE)
           ELSE IF nu.err # NilErr
                THEN ConcReturn(c, "failed to create user: " \o nu.err, FALSE)
           ELSE /\ pc' = [pc EXCEPT ![c] = "userRepo.Create"]
                /\ loc' = [loc EXCEPT ![c].obj = nu.user]
    /\ UNCHANGED <<repo, urepo>>
    /\ ConcUnchanged

\* CreateUser, user_service.go 54-57: userRepo.Create
ConcUserRepoCreate(c) ==
    /\ pc[c] = "userRepo.Create"
    /\ IF \/ UserExistsByUsername(urepo, loc[c].username)
          \/ UserExistsByEmail(urepo, loc[c].email)
       THEN /\ \E cause \in UserUniqueViolations :
                  ConcReturn(c, "failed to save user" \o ": " \o cause, TRUE)
            /\ urepo' = urepo
       ELSE /\ urepo' = UserRepoCreate(urepo, Deref(loc[c].obj))
            /\ pc' = [pc EXCEPT ![c] = "advisory"]
            /\ loc' = loc
    /\ UNCHANGED <<repo, nextId, now>>
    /\ ConcUnchanged

\* The audit log, the events and the dispatch, whose errors are warnings:
\* return employee, nil (employee.go 504-528, user_service.go 59-76)
ConcAdvisory(c) ==
    /\ pc[c] = "advisory"
    /\ pc' = [pc EXCEPT ![c] = "done"]
    /\ loc' = [loc EXCEPT ![c].err = NilErr]
    /\ UNCHANGED <<repo, urepo, nextId, now>>
    /\ ConcUnchanged

ConcNext ==
    \E c \in Callers :
        \/ ConcCallCreateEmployee(c)
        \/ ConcCallCreateUser(c)
        \/ ConcValidateEmployeeCreation(c)
        \/ ConcEmployeeRepoCreate(c)
        \/ ConcExistsByUsername(c)
        \/ ConcExistsByEmail(c)
        \/ ConcUserRepoCreate(c)
        \/ ConcAdvisory(c)

SpecConc == ConcInit /\ [][ConcNext]_vars

-----------------------------------------------------------------------------
(* SpecRace: DeleteEmployee, CreateEmployee, UpdateEmployee and               *)
(* ChangeEmployeeStatus called by concurrent callers on a repository that     *)
(* holds employees 1 and 2.  A call is a sequence of steps, one for each      *)
(* access to the employee repository; the steps of different callers          *)
(* interleave.  A caller works on the copy of the employee it loaded.  The    *)
(* persistence layer holds the unique constraint on the email; whether it     *)
(* also holds a foreign key on the manager reference is left open: a write    *)
(* that would leave a manager reference without its employee is either        *)
(* refused or stored.  The audit log, the event store and the dispatcher,     *)
(* called after the write, do not touch the employee repository.              *)

EmailC == <<"c","@","x",".","c","o">>
DriverForeignKeyViolation == "violates foreign key constraint"

StoredAtStart ==
    RepoCreate(RepoCreate(<<>>, Deref(NewEmployee(1, BaseArgs, 1).employee)),
               Deref(NewEmployee(2, [BaseArgs EXCEPT !.email = EmailB], 2).employee))

NoRaceLoc == [op |-> "none", id |-> 0, status |-> "", obj |-> NoEmployee, err |-> NilErr]

\* The calls a caller may make: employee 1 is deleted, or named as manager
\* of a new employee or of employee 2; the status of employee 2 is changed
RaceCalls ==
    { [NoRaceLoc EXCEPT !.op = "DeleteEmployee", !.id = 1],
      [NoRaceLoc EXCEPT !.op = "CreateEmployee"],
      [NoRaceLoc EXCEPT !.op = "UpdateEmployee", !.id = 2] }
    \cup { [NoRaceLoc EXCEPT !.op = "ChangeEmployeeStatus", !.id = 2, !.status = st] :
             st \in {EmployeeStatusActive, EmployeeStatusOnLeave,
                     EmployeeStatusTerminated} }

RaceManagerUpdate == One("managerId", Str(UuidString(1)))

RaceInit ==
    /\ emp = NoEmployee
    /\ aggLast = NoCall
    /\ now = 2
    /\ nextId = 2
    /\ repo = StoredAtStart
    /\ last = NoCall
    /\ handlers = WiredHandlers
    /\ pc = [c \in Callers |-> "idle"]
    /\ loc = [c \in Callers |-> NoRaceLoc]
    /\ urepo = <<>>
    /\ NoUserObject

RaceUnchanged == UNCHANGED <<emp, aggLast, last, handlers, urepo, userVars>>

\* The call returns err
RaceReturn(c, err) ==
    /\ pc' = [pc EXCEPT ![c] = "done"]
    /\ loc' = [loc EXCEPT ![c].err = err]

\* The call goes on to step next with the employee obj in hand
RaceGoOn(c, next, obj) ==
    /\ pc' = [pc EXCEPT ![c] = next]
    /\ loc' = [loc EXCEPT ![c].obj = obj]

RaceCall(c) ==
    /\ pc[c] = "idle"
    /\ \E call \in RaceCalls :
          /\ loc' = [loc EXCEPT ![c] = call]
          /\ pc' = [pc EXCEPT ![c] = IF call.op = "CreateEmployee"
                                     THEN "validateEmployeeCreation" ELSE "GetByID"]
    /\ UNCHANGED <<repo, nextId, now>>
    /\ RaceUnchanged

\* employeeRepo.GetByID and the change made to the loaded copy:
\* DeleteEmployee 597-604, ChangeEmployeeStatus 647-660, UpdateEmployee 540-555
RaceGetByID(c) ==
    /\ pc[c] = "GetByID"
    /\ now' = now + 1
    /\ LET got == RepoGetByID(repo, loc[c].id)
           cs == ChangeStatus(Deref(got), loc[c].status, now + 1)
           ap == applyEmployeeUpdates(Deref(got), RaceManagerUpdate.updates,
                                      RaceManagerUpdate.order, now + 1)
       IN  IF got = NoEmployee THEN RaceReturn(c, ErrEmployeeNotFound)
           ELSE IF loc[c].op = "DeleteEmployee"
                THEN RaceGoOn(c, "validateEmployeeDeletion", got)
           ELSE IF loc[c].op = "UpdateEmployee"
                THEN RaceGoOn(c, "validateEmployeeUpdate", Ptr(ap.employee))
           ELSE IF cs.err # NilErr THEN RaceReturn(c, cs.err)
           ELSE RaceGoOn(c, "employeeRepo.Update", cs.employee)
    /\ UNCHANGED <<repo, nextId>>
    /\ RaceUnchanged

\* CreateEmployee 488-497: validateEmployeeCreation, NewEmployee
RaceValidateCreation(c) ==
    /\ pc[c] = "validateEmployeeCreation"
    /\ now' = now + 1
    /\ nextId' = nextId + 1
    /\ LET v == validateEmployeeCreation(repo, EmailC, Ptr(1), {})
           ne == NewEmployee(nextId + 1,
                             [BaseArgs EXCEPT !.email = EmailC, !.managerID = Ptr(1)],
                             now + 1)
       IN  IF v # NilErr THEN RaceReturn(c, v)
           ELSE RaceGoOn(c, "employeeRepo.Create", ne.employee)
    /\ UNCHANGED repo
    /\ RaceUnchanged

\* UpdateEmployee 557-560: validateEmployeeUpdate
RaceValidateUpdate(c) ==
    /\ pc[c] = "validateEmployeeUpdate"
    /\ LET v == validateEmployeeUpdate(repo, Deref(loc[c].obj))
       IN  IF v # NilErr THEN RaceReturn(c, v)
           ELSE RaceGoOn(c, "employeeRepo.Update", loc[c].obj)
    /\ UNCHANGED <<repo, nextId, now>>
    /\ RaceUnchanged

\* DeleteEmployee 606-609: validateEmployeeDeletion
RaceValidateDeletion(c) ==
    /\ pc[c] = "validateEmployeeDeletion"
    /\ LET v == validateEmployeeDeletion(repo, Deref(loc[c].obj))
       IN  IF v # NilErr THEN RaceReturn(c, v)
           ELSE RaceGoOn(c, "employeeRepo.Delete", loc[c].obj)
    /\ UNCHANGED <<repo, nextId, now>>
    /\ RaceUnchanged

\* The manager reference of e has no employee in r
Dangling(r, e) == e.ManagerID # NilManager /\ ~RepoExistsByID(r, Deref(e.ManagerID))

\* The write is refused by the persistence layer
RaceRefused(c, msg, cause) ==
    /\ RaceReturn(c, msg \o ": " \o cause)
    /\ repo' = repo

\* The write is done and the call returns success
RaceWritten(c, r) ==
    /\ RaceReturn(c, NilErr)
    /\ repo' = r

\* CreateEmployee 499-528: employeeRepo.Create
RaceRepoCreate(c) ==
    /\ pc[c] = "employeeRepo.Create"
    /\ LET e == Deref(loc[c].obj)
       IN  IF RepoExistsByEmail(repo, e.Email)
           THEN RaceRefused(c, "failed to save employee", DriverUniqueViolation)
           ELSE \/ RaceWritten(c, RepoCreate(repo, e))
                \/ /\ Dangling(repo, e)
                   /\ RaceRefused(c, "failed to save employee", DriverForeignKeyViolation)
    /\ UNCHANGED <<nextId, now>>
    /\ RaceUnchanged

\* UpdateEmployee 564-586, ChangeEmployeeStatus 663-685: employeeRepo.Update
\* of the whole employee; an update of a row that is gone changes nothing
RaceRepoUpdate(c) ==
    /\ pc[c] = "employeeRepo.Update"
    /\ LET e == Deref(loc[c].obj)
       IN  IF ~RepoExistsByID(repo, e.ID)
           THEN \/ RaceWritten(c, repo)
                \/ RaceRefused(c, "failed to update employee", RepoError)
           ELSE \/ RaceWritten(c, RepoUpdate(repo, e))
                \/ /\ Dangling(repo, e)
                   /\ RaceRefused(c, "failed to update employee", DriverForeignKeyViolation)
    /\ UNCHANGED <<nextId, now>>
    /\ RaceUnchanged

\* DeleteEmployee 615-636: employeeRepo.Delete
RaceRepoDelete(c) ==
    /\ pc[c] = "employeeRepo.Delete"
    /\ \/ RaceWritten(c, RepoDelete(repo, loc[c].id))
       \/ /\ RepoFindByManagerID(repo, loc[c].id) # {}
          /\ RaceRefused(c, "failed to delete employee", DriverForeignKeyViolation)
    /\ UNCHANGED <<nextId, now>>
    /\ RaceUnchanged

RaceNext ==
    \E c \in Callers :
        \/ RaceCall(c)
        \/ RaceGetByID(c)
        \/ RaceValidateCreation(c)
        \/ RaceValidateUpdate(c)
        \/ RaceValidateDeletion(c)
        \/ RaceRepoCreate(c)
        \/ RaceRepoUpdate(c)
        \/ RaceRepoDelete(c)

SpecRace == RaceInit /\ [][RaceNext]_vars

-----------------------------------------------------------------------------
(* Claims on EmployeeService *)

Called == last.op # "none"
PrimaryWrites == {"employeeRepo.Create", "employeeRepo.Update", "employeeRepo.Delete"}

\* C1: for each of the five mutating operations, a call in which the audit
\* log repository, the event store or a handler fails (in any combination)
\* has the result of the same call with no failure: the same error, the same
\* returned employee, the same repository afterwards; and when the primary
\* write succeeded and the call returned, it returned success and the stored
\* employee change is in the repository.
C1_AdvisoryFailuresIgnored ==
    [][ \A clean \in {IF last'.op = "none" THEN <<>>
                      ELSE ServiceCall(repo, handlers, nextId, now + 1,
                                       last'.op, last'.args, {})} :
          (last'.op # "none" /\ last'.faults \subseteq AdvisoryFaults) =>
             /\ last'.err = clean.err
             /\ last'.ret = clean.ret
             /\ last'.panicked = clean.panicked
             /\ repo' = clean.repo
             /\ (last'.trace # <<>> /\ ~last'.panicked) =>
                   /\ last'.trace[1].call \in PrimaryWrites
                   /\ last'.trace[1].ok
                   /\ last'.err = NilErr
                   /\ repo' # repo ]_vars

\* CreateEmployee returned the stored employee although the audit log
\* repository, the event store and a handler all failed
C1_Witness ==
    /\ Called
    /\ last.op = "CreateEmployee"
    /\ last.faults = AdvisoryFaults
    /\ last.err = NilErr
    /\ last.ret # NoEmployee
    /\ Deref(last.ret).ID \in DOMAIN repo
    /\ Len(last.trace) = 5
    /\ \A k \in 2..5 : ~last.trace[k].ok

\* C4: every employee held by the repository satisfies every field validator
StoredFieldsValid(e) ==
    /\ validateName(e.FirstName, "first name") = NilErr
    /\ validateName(e.LastName, "last name") = NilErr
    /\ validateEmail(e.Email) = NilErr
    /\ validateDepartment(e.Department) = NilErr
    /\ validatePosition(e.Position) = NilErr
    /\ validateSalary(e.Salary) = NilErr
    /\ StatusIsValid(e.Status)
    /\ AddressValidate(e.Address) = NilErr

C4_StoredEmployeesValid ==
    \A i \in DOMAIN repo : StoredFieldsValid(repo[i])

\* C5: no two stored employees have the same email; CreateEmployee with an
\* email in use fails with ErrEmailAlreadyExists and stores nothing;
\* UpdateEmployee whose updates apply and change the email to that of
\* another stored employee fails with ErrEmailAlreadyExists and stores
\* nothing; UpdateEmployee that leaves the email as it is stored is never
\* refused with ErrEmailAlreadyExists.
UniqueEmails(r) ==
    \A i, j \in DOMAIN r : r[i].Email = r[j].Email => i = j

C5_UniqueEmails ==
    [][ /\ UniqueEmails(repo')
        /\ (last'.op = "CreateEmployee" /\ RepoExistsByEmail(repo, last'.args.a.email))
              => (last'.err = ErrEmailAlreadyExists /\ repo' = repo /\ last'.trace = <<>>)
        /\ (last'.op = "UpdateEmployee" /\ last'.args.id \in DOMAIN repo)
              => \A ap \in {applyEmployeeUpdates(repo[last'.args.id], last'.args.updates,
                                                 last'.args.order, now + 1)} :
                    /\ (/\ ap.err = NilErr
                        /\ \E j \in DOMAIN repo \ {last'.args.id} :
                               repo[j].Email = ap.employee.Email)
                          => (/\ last'.err = ErrEmailAlreadyExists
                              /\ repo' = repo
                              /\ last'.trace = <<>>)
                    /\ (ap.err = NilErr /\ ap.employee.Email = repo[last'.args.id].Email)
                          => last'.err # ErrEmailAlreadyExists ]_vars

\* Two employees are stored and an update of the second to the email of the
\* first was refused
C5_Witness ==
    /\ Called
    /\ last.op = "UpdateEmployee"
    /\ last.err = ErrEmailAlreadyExists
    /\ last.args.id = 2
    /\ DOMAIN repo = {1, 2}
    /\ last.args.updates["email"].v = repo[1].Email
    /\ repo[2].Email # repo[1].Email

\* C6: the persistence layer keeps one record for each email (and each user
\* name), and a call whose write it rejected with a uniqueness violation
\* reports ErrEmailAlreadyExists (a CreateUser call: ErrUsernameAlreadyExists
\* or ErrEmailAlreadyExists) to its caller.
C6_RaceLoserReportsConflict ==
    /\ UniqueEmails(repo)
    /\ UniqueEmails(urepo)
    /\ \A i, j \in DOMAIN urepo : urepo[i].Username = urepo[j].Username => i = j
    /\ \A c \in DOMAIN loc :
          (pc[c] = "done" /\ loc[c].rejected) =>
             IF loc[c].op = "CreateEmployee"
             THEN ErrorsIs(loc[c].err, ErrEmailAlreadyExists)
             ELSE \/ ErrorsIs(loc[c].err, ErrUsernameAlreadyExists)
                  \/ ErrorsIs(loc[c].err, ErrEmailAlreadyExists)

\* C7: DeleteEmployee of a stored employee fails with
\* ErrEmployeeHasDirectReports whenever a stored employee has it as manager,
\* and then the repository is as before and nothing is written to the audit
\* log, the event store or the dispatcher; otherwise the employee is removed.
C7_DirectReportsBlockDeletion ==
    [][ (last'.op = "DeleteEmployee" /\ last'.args.id \in DOMAIN repo) =>
          IF \E j \in DOMAIN repo : repo[j].ManagerID = Ptr(last'.args.id)
          THEN /\ last'.err = ErrEmployeeHasDirectReports
               /\ repo' = repo
               /\ last'.trace = <<>>
          ELSE /\ last'.err = NilErr
               /\ repo' = RepoDelete(repo, last'.args.id)
               /\ last'.args.id \notin DOMAIN repo' ]_vars

\* The manager of a stored employee was not deleted
C7_Witness ==
    /\ Called
    /\ last.op = "DeleteEmployee"
    /\ last.args.id = 1
    /\ last.err = ErrEmployeeHasDirectReports
    /\ DOMAIN repo = {1, 2}
    /\ repo[2].ManagerID = Ptr(1)

\* C8: UpdateEmployee, DeleteEmployee, ChangeEmployeeStatus and
\* UpdateEmployeeSalary on an ID that is not stored (the lookup itself
\* working) fail with ErrEmployeeNotFound and write nothing: the repository
\* is as before, and no audit log, event or dispatch is asked for.
C8_UnknownIdNotFound ==
    [][ (/\ last'.op \in {"UpdateEmployee", "DeleteEmployee",
                          "ChangeEmployeeStatus", "UpdateEmployeeSalary"}
         /\ last'.args.id \notin DOMAIN repo
         /\ "read" \notin last'.faults)
        => (/\ last'.err = ErrEmployeeNotFound
            /\ last'.ret = NoEmployee
            /\ last'.trace = <<>>
            /\ repo' = repo) ]_vars

\* A status change of an ID never stored, next to a stored employee
C8_Witness ==
    /\ Called
    /\ last.op = "ChangeEmployeeStatus"
    /\ last.args.id \notin DOMAIN repo
    /\ DOMAIN repo # {}
    /\ last.err = ErrEmployeeNotFound

\* C9: when the primary write of a call fails, the call returns an error and
\* no employee, the repository is as before, and the failed write is the
\* only thing the call asked of a collaborator: no audit log is written, no
\* event is saved, no handler is dispatched.  The primary write fails when
\* the repository fails writes and the call gets as far as its write.
C9_FailedWritePropagates ==
    [][ \A reach \in {IF last'.op = "none" THEN <<>>
                      ELSE ServiceCall(repo, handlers, nextId, now + 1, last'.op,
                                       last'.args, last'.faults \ {"write"})} :
          (/\ last'.op # "none"
           /\ "write" \in last'.faults
           /\ reach.trace # <<>>)
          => (/\ last'.err # NilErr
              /\ last'.ret = NoEmployee
              /\ ~last'.panicked
              /\ repo' = repo
              /\ Len(last'.trace) = 1
              /\ last'.trace[1].call \in PrimaryWrites
              /\ ~last'.trace[1].ok) ]_vars

\* The Update of a stored employee failed in the repository
C9_Witness ==
    /\ Called
    /\ last.op = "UpdateEmployeeSalary"
    /\ last.args.id \in DOMAIN repo
    /\ last.faults = {"write"}
    /\ last.err = "failed to update employee: " \o RepoError
    /\ last.trace = <<[call |-> "employeeRepo.Update", ok |-> FALSE]>>

\* C10: after a successful ChangeEmployeeStatus the old status of the audit
\* log and the OldStatus of the event are the status the employee had before
\* the call; the new status of the audit log and the NewStatus of the event
\* are the requested status.
C10_StatusChangeRecordsOldStatus ==
    [][ (last'.op = "ChangeEmployeeStatus" /\ last'.err = NilErr) =>
          /\ last'.trace[2].log # NilAuditLog
          /\ Deref(last'.trace[2].log).OldValues.status = repo[last'.args.id].Status
          /\ Deref(last'.trace[2].log).NewValues.status = last'.args.newStatus
          /\ last'.trace[3].event.OldStatus = repo[last'.args.id].Status
          /\ last'.trace[3].event.NewStatus = last'.args.newStatus ]_vars

\* C27: in every successful mutating call the collaborator calls are made in
\* the order primary repository write, AuditLogRepository.Create,
\* EventStoreRepository.SaveEvent, EventDispatcher.Dispatch of the event that
\* was saved; in no call is an event saved or dispatched unless the primary
\* write came first and succeeded; Dispatch is made also when SaveEvent fails.
C27_CollaboratorOrder ==
    last.op # "none" =>
        /\ \A k \in 1..Len(last.trace) :
              last.trace[k].call \in {"eventStore.SaveEvent", "eventDispatcher.Dispatch"} =>
                 /\ k > 1
                 /\ last.trace[1].call \in PrimaryWrites
                 /\ last.trace[1].ok
        /\ (last.err = NilErr /\ ~last.panicked) =>
              /\ Len(last.trace) >= 4
              /\ last.trace[1].call \in PrimaryWrites
              /\ last.trace[2].call = "auditRepo.Create"
              /\ last.trace[3].call = "eventStore.SaveEvent"
              /\ last.trace[4].call = "eventDispatcher.Dispatch"
              /\ last.trace[4].event = last.trace[3].event

\* A salary update whose event could not be saved dispatched it all the same
C27_Witness ==
    /\ last.op = "UpdateEmployeeSalary"
    /\ last.err = NilErr
    /\ last.faults = {"event"}
    /\ ~last.trace[3].ok
    /\ last.trace[4].call = "eventDispatcher.Dispatch"
    /\ last.trace[4].invoked # <<>>

\* C28: a CreateEmployee whose audit log entry NewAuditLog refuses to build
\* (empty userID, empty or too short ipAddress) continues after the employee
\* is stored: it returns the created employee, without error and without
\* crashing.
C28_CreateSurvivesRejectedAuditLog ==
    (/\ last.op = "CreateEmployee"
     /\ last.trace # <<>>
     /\ last.trace[1].ok
     /\ last.trace[2].log = NilAuditLog)
    => (/\ ~last.panicked
        /\ last.err = NilErr
        /\ last.ret # NoEmployee)

\* C29: when the context is cancelled while a mutating call is running, the
\* method aborts: the collaborator call in progress at the cancellation is
\* the last one the method starts.
C29_CancellationAborts ==
    (last.op # "none" /\ "cancelAt" \in DOMAIN last.args.ctx) =>
        Len(last.trace) <= last.args.ctx.cancelAt

\* C30: UpdateEmployee changes only the fields named by recognized keys of
\* the update map; unrecognized keys are ignored without error; every other
\* field except UpdatedAt, in particular ID, Status, HireDate and CreatedAt,
\* keeps its value.
UpdateKeyOf ==
    [FirstName |-> "firstName", LastName |-> "lastName", Email |-> "email",
     Phone |-> "phone", Department |-> "department", Position |-> "position",
     Salary |-> "salary", ManagerID |-> "managerId", Address |-> "address"]

RecognizedKeys == {UpdateKeyOf[f] : f \in DOMAIN UpdateKeyOf}

C30_UpdateTouchesNamedFieldsOnly ==
    [][ (last'.op = "UpdateEmployee" /\ last'.args.id \in DOMAIN repo) =>
          LET id == last'.args.id
              keys == DOMAIN last'.args.updates
          IN /\ id \in DOMAIN repo'
             /\ \A f \in DOMAIN UpdateKeyOf :
                   UpdateKeyOf[f] \notin keys => repo'[id][f] = repo[id][f]
             /\ \A f \in {"ID", "Status", "HireDate", "CreatedAt"} :
                   repo'[id][f] = repo[id][f]
             /\ \A j \in DOMAIN repo \ {id} : j \in DOMAIN repo' /\ repo'[j] = repo[j]
             /\ keys \cap RecognizedKeys = {} =>
                   /\ last'.err = NilErr
                   /\ repo'[id] = [repo[id] EXCEPT !.UpdatedAt = now'] ]_vars

\* An update naming only a key that is not recognized succeeded and left the
\* employee as created, but for UpdatedAt
C30_Witness ==
    /\ last.op = "UpdateEmployee"
    /\ last.args.order = <<"nickname">>
    /\ last.err = NilErr
    /\ last.args.id \in DOMAIN repo
    /\ repo[last.args.id] = Deref(last.ret)
    /\ repo[last.args.id].UpdatedAt = now
    /\ repo[last.args.id].CreatedAt < now
    /\ repo[last.args.id].HireDate = BaseArgs.hireDate

\* C32: the audit log written by an EmployeeService operation is of the
\* operation's kind: IsCreation for CreateEmployee, IsDeletion for
\* DeleteEmployee, IsUpdate for UpdateEmployee, ChangeEmployeeStatus and
\* UpdateEmployeeSalary; it carries the employee's ID and the acting userID.
C32_AuditLogKindMatchesOperation ==
    (last.op # "none" /\ last.err = NilErr /\ ~last.panicked) =>
        /\ last.trace[2].call = "auditRepo.Create"
        /\ last.trace[2].log # NilAuditLog
        /\ LET a == Deref(last.trace[2].log)
           IN  /\ a.UserID = last.args.ctx.userID
               /\ a.EmployeeID = IF last.op = "CreateEmployee"
                                 THEN Deref(last.ret).ID ELSE last.args.id
               /\ last.op = "CreateEmployee" =>
                     IsCreation(a) /\ MapLen(a.OldValues) = 0
               /\ last.op = "DeleteEmployee" =>
                     IsDeletion(a) /\ MapLen(a.NewValues) = 0
               /\ last.op \in {"UpdateEmployee", "ChangeEmployeeStatus",
                                "UpdateEmployeeSalary"} => IsUpdate(a)

\* An employee was deleted and the log written for it is a deletion
C32_Witness ==
    /\ last.op = "DeleteEmployee"
    /\ last.err = NilErr
    /\ last.trace[2].log # NilAuditLog
    /\ IsDeletion(Deref(last.trace[2].log))
    /\ ~IsUpdate(Deref(last.trace[2].log))
    /\ Deref(last.trace[2].log).EmployeeID = last.args.id
    /\ last.args.id \notin DOMAIN repo

\* C33: through EmployeeService the salary, position and department of a
\* stored employee whose status is TERMINATED never change; UpdateEmployee
\* carrying those keys for a terminated employee is rejected.
C33_TerminatedEmployeeIsFrozen ==
    [][ \A i \in DOMAIN repo \cap DOMAIN repo' :
           repo[i].Status = EmployeeStatusTerminated =>
              /\ repo'[i].Salary = repo[i].Salary
              /\ repo'[i].Position = repo[i].Position
              /\ repo'[i].Department = repo[i].Department
              /\ (/\ last'.op = "UpdateEmployee"
                  /\ last'.args.id = i
                  /\ DOMAIN last'.args.updates
                        \cap {"salary", "position", "department"} # {})
                 => last'.err # NilErr ]_vars

\* C34: after any sequence of sequential calls, the ManagerID of every stored
\* employee, when set, is the ID of an employee that is stored.
C34_NoDanglingManager ==
    \A i \in DOMAIN repo :
        repo[i].ManagerID # NilManager => Deref(repo[i].ManagerID) \in DOMAIN repo

\* Employee 2 reports to employee 1, whose deletion was refused
C34_Witness ==
    /\ DOMAIN repo = {1, 2}
    /\ repo[2].ManagerID = Ptr(1)
    /\ last.op = "DeleteEmployee"
    /\ last.args.id = 1
    /\ last.err = ErrEmployeeHasDirectReports

\* C35: in every interleaving of DeleteEmployee(m) with a concurrent
\* CreateEmployee or UpdateEmployee that names m as manager, once the calls
\* have returned no stored employee has a ManagerID that refers to the
\* deleted employee.
C35_NoReferenceToDeletedManager ==
    (\A c \in Callers : pc[c] = "done") =>
        \A i \in DOMAIN repo : ~Dangling(repo, repo[i])

\* C36: in every interleaving of concurrent ChangeEmployeeStatus calls on the
\* same employee, once TERMINATED is stored for the employee no later write
\* stores another status for it.
C36_TerminatedStaysTerminated ==
    [][ \A i \in DOMAIN repo \cap DOMAIN repo' :
           repo[i].Status = EmployeeStatusTerminated =>
              repo'[i].Status = EmployeeStatusTerminated ]_vars

\* C24: the manager relation over the stored employees has no cycle: no chain
\* of ManagerID references leads from a stored employee back to itself, a
\* chain of length one (an employee that is its own manager) included.
\* The employees k references up from employee i, following stored managers
RECURSIVE ManagerChain(_, _, _)
ManagerChain(r, i, k) ==
    IF k = 0 \/ i \notin DOMAIN r \/ r[i].ManagerID = NilManager
    THEN {}
    ELSE {Deref(r[i].ManagerID)} \cup ManagerChain(r, Deref(r[i].ManagerID), k - 1)

C24_NoManagerCycle ==
    \A i \in DOMAIN repo : i \notin ManagerChain(repo, i, Cardinality(DOMAIN repo))

-----------------------------------------------------------------------------
(* SpecDisp: an EventDispatcher on which handlers are registered and events  *)
(* are dispatched, in any order.  Handler h1 accepts every event type and    *)
(* h2 too; h3 accepts employee.updated only.  A dispatch names the handlers  *)
(* whose Handle returns an error during it.                                  *)

DispEventTypes == {"employee.created", "employee.updated", "employee.deleted"}
DispHandlers ==
    { [name |-> "h1", canHandle |-> DispEventTypes],
      [name |-> "h2", canHandle |-> DispEventTypes],
      [name |-> "h3", canHandle |-> {"employee.updated"}] }
DispFailing == { {}, {"h2"}, {"h2", "h3"} }

\* The handlers registered under ty, in registration order
HandlersFor(reg, ty) == IF ty \in DOMAIN reg THEN reg[ty] ELSE <<>>

Registrations(reg) ==
    Len(HandlersFor(reg, "employee.created")) + Len(HandlersFor(reg, "employee.updated"))
        + Len(HandlersFor(reg, "employee.deleted"))

\* NewEventDispatcher
DispInit ==
    /\ handlers = <<>>
    /\ last = NoCall
    /\ emp = NoEmployee /\ aggLast = NoCall /\ now = 0 /\ nextId = 0
    /\ repo = <<>> /\ pc = <<>> /\ loc = <<>> /\ urepo = <<>>
    /\ NoUserObject

DispUnchanged == UNCHANGED <<emp, aggLast, repo, nextId, now, pc, loc, urepo, userVars>>

DispRegisterHandler ==
    /\ Registrations(handlers) < MaxHandlers
    /\ \E ty \in {"employee.created", "employee.updated"}, h \in DispHandlers :
          handlers' = RegisterHandler(handlers, ty, h)
    /\ UNCHANGED last
    /\ DispUnchanged

DispDispatch ==
    /\ \E ty \in DispEventTypes, failing \in DispFailing :
          \E d \in {Dispatch(handlers, [Type |-> ty], failing)} :
              last' = [op |-> "Dispatch", type |-> ty, failing |-> failing,
                       invoked |-> d.invoked, err |-> d.err]
    /\ UNCHANGED handlers
    /\ DispUnchanged

DispNext == DispRegisterHandler \/ DispDispatch

SpecDisp == DispInit /\ [][DispNext]_vars

\* The names of the handlers in hs that accept ty, in the order of hs
Accepting(hs, ty) ==
    LET acc == SelectSeq(hs, LAMBDA h : ty \in h.canHandle)
    IN  [k \in 1..Len(acc) |-> acc[k].name]

\* C13: Dispatch(e) invokes, once for each registration and in registration
\* order, every handler registered under e's type whose CanHandle returns
\* true, whether or not an earlier one failed; a handler registered only
\* under other event types is not invoked.
C13_DispatchInvokesAccepting ==
    [][ last'.op = "Dispatch" /\ last' # last =>
          /\ last'.invoked = Accepting(HandlersFor(handlers, last'.type), last'.type)
          /\ \A k \in 1..Len(last'.invoked) :
                \E j \in 1..Len(HandlersFor(handlers, last'.type)) :
                    HandlersFor(handlers, last'.type)[j].name = last'.invoked[k] ]_vars

\* h2 failed and the handler registered after it was invoked all the same,
\* while h3 under employee.created was passed over
C13_Witness ==
    /\ last.op = "Dispatch"
    /\ last.type = "employee.created"
    /\ last.failing = {"h2", "h3"}
    /\ last.invoked = <<"h2", "h1">>
    /\ Len(HandlersFor(handlers, "employee.created")) = 3
    /\ \E k \in 1..3 : handlers["employee.created"][k].name = "h3"

\* C14: Dispatch returns nil when no handler is registered for the event's
\* type or every invoked handler succeeds, and a single aggregated error
\* exactly when at least one invoked handler returned an error; a handler
\* whose CanHandle is false contributes no error.
C14_DispatchAggregatesErrors ==
    [][ last'.op = "Dispatch" /\ last' # last =>
          LET hs == HandlersFor(handlers, last'.type)
              failed == {k \in 1..Len(hs) : /\ last'.type \in hs[k].canHandle
                                            /\ hs[k].name \in last'.failing}
          IN  /\ hs = <<>> => last'.err = NilErr
              /\ (last'.err = NilErr) <=> (failed = {})
              /\ failed # {} =>
                    last'.err = "event dispatch had " \o ToString(Cardinality(failed))
                                    \o " errors" ]_vars

\* Two registrations of h2 failed and one error came back; the failing h3,
\* registered under a type it does not accept, added nothing to it
C14_Witness ==
    /\ last.op = "Dispatch"
    /\ last.type = "employee.created"
    /\ last.failing = {"h2", "h3"}
    /\ last.invoked = <<"h2", "h2">>
    /\ last.err = "event dispatch had 2 errors"
    /\ Len(HandlersFor(handlers, "employee.created")) = 3

-----------------------------------------------------------------------------
(* SpecUser: one User object driven through its constructor and methods, in  *)
(* a build of either kind of bcrypt.  The passwords supplied are two short   *)
(* strong ones, a weak one, a strong one of 72 bytes and a strong one of 73  *)
(* bytes that starts with it; validatePasswordStrength accepts up to 128.    *)

PasswordB == <<"B","b","2","#","b","b","b","b">>
Password72 == PasswordOk \o [k \in 1..64 |-> "a"]
Password73 == Password72 \o <<"x">>
UserPasswords == {PasswordOk, PasswordB, PasswordWeak, Password72, Password73}

UserInit ==
    /\ usr = NoUser
    /\ usrPw = <<>>
    /\ bcryptStrict \in BOOLEAN
    /\ aggLast = NoCall
    /\ now = 0
    /\ emp = NoEmployee /\ nextId = 0 /\ repo = <<>> /\ last = NoCall
    /\ handlers = <<>> /\ pc = <<>> /\ loc = <<>> /\ urepo = <<>>

UserUnchanged ==
    UNCHANGED <<emp, repo, nextId, last, handlers, pc, loc, urepo, bcryptStrict>>

\* A call of a method that returns an error: r is its [user, err], pw the
\* plaintext the stored hash was made from if the call succeeds
UserCall(op, args, r, pw) ==
    /\ now < MaxCalls + 1
    /\ \E res \in {r} :
          /\ now' = now + 1
          /\ usr' = res.user
          /\ usrPw' = IF res.err = NilErr THEN pw ELSE usrPw
          /\ aggLast' = [op |-> op, args |-> args, err |-> res.err, ret |-> FALSE]
          /\ UserUnchanged

UserNewUser ==
    /\ usr = NoUser
    /\ \E password \in UserPasswords, username \in {NameBob, <<"_","b">>} :
          UserCall("NewUser", <<username, password>>,
                   NewUser(1, username, EmailA, password, UserRoleViewer, now + 1),
                   password)

UserAuthenticate ==
    /\ usr # NoUser
    /\ now < MaxCalls + 1
    /\ \E password \in UserPasswords :
          /\ aggLast' = [op |-> "Authenticate", args |-> <<password>>, err |-> NilErr,
                         ret |-> Authenticate(Deref(usr), password)]
          /\ now' = now + 1
          /\ UNCHANGED <<usr, usrPw>>
          /\ UserUnchanged

UserUpdateLastLogin ==
    /\ usr # NoUser
    /\ UserCall("UpdateLastLogin", <<>>,
                [user |-> Ptr(UpdateLastLogin(Deref(usr), now + 1)), err |-> NilErr],
                usrPw)

UserActivate ==
    /\ usr # NoUser
    /\ UserCall("Activate", <<>>, Activate(Deref(usr), now + 1), usrPw)

UserDeactivate ==
    /\ usr # NoUser
    /\ UserCall("Deactivate", <<>>, Deactivate(Deref(usr), now + 1), usrPw)

UserChangePassword ==
    /\ usr # NoUser
    /\ \E cur \in UserPasswords \ {PasswordWeak}, new \in UserPasswords :
          UserCall("ChangePassword", <<cur, new>>,
                   ChangePassword(Deref(usr), cur, new, now + 1), new)

UserResetPassword ==
    /\ usr # NoUser
    /\ \E new \in UserPasswords :
          UserCall("ResetPassword", <<new>>, ResetPassword(Deref(usr), new, now + 1), new)

UserUpdateRole ==
    /\ usr # NoUser
    /\ \E role \in {UserRoleAdmin, UserRoleManager, "ROOT"} :
          UserCall("UpdateRole", <<role>>, UpdateRole(Deref(usr), role, now + 1), usrPw)

UserUpdateEmail ==
    /\ usr # NoUser
    /\ \E email \in {EmailB, EmailNoAt} :
          UserCall("UpdateEmail", <<email>>, UpdateEmail(Deref(usr), email, now + 1), usrPw)

\* The capability predicates and the permissions of the user are asked for
UserAskCapabilities ==
    /\ usr # NoUser
    /\ now < MaxCalls + 1
    /\ aggLast' = [op |-> "Capabilities", args |-> <<>>, err |-> NilErr,
                   ret |-> UserCapabilities(Deref(usr))]
    /\ now' = now + 1
    /\ UNCHANGED <<usr, usrPw>>
    /\ UserUnchanged

UserNext ==
    \/ UserNewUser
    \/ UserAuthenticate
    \/ UserUpdateLastLogin
    \/ UserActivate
    \/ UserDeactivate
    \/ UserChangePassword
    \/ UserResetPassword
    \/ UserUpdateRole
    \/ UserUpdateEmail
    \/ UserAskCapabilities

SpecUser == UserInit /\ [][UserNext]_vars

\* C15: Authenticate(p) returns true exactly when IsActive is true and p is
\* the password whose hash is stored; for a deactivated user it returns
\* false for every p.
C15_AuthenticateIffActiveAndPassword ==
    [][ aggLast'.op = "Authenticate" =>
          /\ aggLast'.ret = (Deref(usr).IsActive /\ aggLast'.args[1] = usrPw)
          /\ ~Deref(usr).IsActive => aggLast'.ret = FALSE ]_vars

\* C16: Activate fails with "already active" when IsActive is true, and
\* Deactivate with "already inactive" when it is false, the user unchanged;
\* otherwise each succeeds and flips IsActive.  No other method writes
\* IsActive, so that successful Activate and Deactivate calls alternate.
C16_ActivateDeactivateAlternate ==
    [][ usr # NoUser =>
          /\ aggLast'.op = "Activate" =>
                IF Deref(usr).IsActive
                THEN aggLast'.err = "user is already active" /\ usr' = usr
                ELSE aggLast'.err = NilErr /\ Deref(usr').IsActive
          /\ aggLast'.op = "Deactivate" =>
                IF ~Deref(usr).IsActive
                THEN aggLast'.err = "user is already inactive" /\ usr' = usr
                ELSE aggLast'.err = NilErr /\ ~Deref(usr').IsActive
          /\ Deref(usr').IsActive # Deref(usr).IsActive =>
                /\ aggLast'.err = NilErr
                /\ aggLast'.op = (IF Deref(usr).IsActive THEN "Deactivate" ELSE "Activate")
      ]_vars

\* A deactivated user was activated again, and a second Activate right
\* after it was refused
C16_Witness ==
    /\ usr # NoUser
    /\ aggLast.op = "Activate"
    /\ aggLast.err = "user is already active"
    /\ Deref(usr).IsActive
    /\ Deref(usr).UpdatedAt = 3
    /\ now = 4

\* C17: ChangePassword(current, new) succeeds exactly when current
\* authenticates and new meets the strength rules; ResetPassword(new)
\* succeeds exactly when new meets the strength rules; after either succeeds
\* an active user authenticates with new and no longer with the previous
\* password when it is different; after either fails the hash is unchanged.
C17_PasswordChangeRule ==
    [][ aggLast'.op \in {"ChangePassword", "ResetPassword"} =>
          LET new == aggLast'.args[Len(aggLast'.args)] IN
          /\ aggLast'.op = "ChangePassword" =>
                ((aggLast'.err = NilErr) <=>
                    /\ Authenticate(Deref(usr), aggLast'.args[1])
                    /\ validatePasswordStrength(new) = NilErr)
          /\ aggLast'.op = "ResetPassword" =>
                ((aggLast'.err = NilErr) <=> validatePasswordStrength(new) = NilErr)
          /\ (aggLast'.err = NilErr /\ Deref(usr').IsActive) =>
                /\ Authenticate(Deref(usr'), new)
                /\ usrPw # new => ~Authenticate(Deref(usr'), usrPw)
          /\ aggLast'.err # NilErr => Deref(usr').Password = Deref(usr).Password
      ]_vars

\* C20: the Password field of a User holds a hash and is none of the
\* plaintext passwords supplied to NewUser, ChangePassword or ResetPassword.
C20_PasswordIsNeverPlaintext ==
    usr # NoUser =>
        /\ Deref(usr).Password # <<>>
        /\ Head(Deref(usr).Password) = "$2a$"
        /\ Deref(usr).Password \notin UserPasswords
        /\ Deref(usr).Password # usrPw

\* ResetPassword replaced the hash made by NewUser
C20_Witness ==
    /\ usr # NoUser
    /\ aggLast.op = "ResetPassword"
    /\ aggLast.args = <<PasswordB>>
    /\ aggLast.err = NilErr
    /\ usrPw = PasswordB
    /\ CheckPassword(PasswordB, Deref(usr).Password)

\* C25: CanAccessSalary is true exactly for ADMIN and MANAGER, CanManageUsers
\* and CanDeleteEmployees exactly for ADMIN, CanViewAuditLogs for every role;
\* every VIEWER permission is a MANAGER permission and every MANAGER
\* permission is an ADMIN permission.
Range(s) == {s[k] : k \in 1..Len(s)}

-----------------------------------------------------------------------------
(* SpecShare: one EventDispatcher shared by concurrent callers that register *)
(* handlers and dispatch events.  EventDispatcher holds a plain map and no   *)
(* lock, so that a call is the steps of its statement: RegisterHandler reads *)
(* the slice of the event type from the map, appends to it and assigns the   *)
(* result to the map; Dispatch reads the slice and ranges over it.  Two      *)
(* callers of which one is about to assign to the map while the other is     *)
(* about to access it race on the map: the accesses may take effect in       *)
(* either order, or the Go runtime may detect them and end the process with  *)
(* a fatal error.                                                            *)

ShareEventTypes == {"employee.created", "employee.updated"}

NoShareLoc == [op |-> "none", ty |-> "", h |-> <<>>, read |-> <<>>, registered |-> <<>>]

ShareInit ==
    /\ handlers = <<>>
    /\ last = NoCall
    /\ pc = [c \in Callers |-> "idle"]
    /\ loc = [c \in Callers |-> NoShareLoc]
    /\ now = 0
    /\ emp = NoEmployee /\ aggLast = NoCall /\ nextId = 0
    /\ repo = <<>> /\ urepo = <<>>
    /\ NoUserObject

ShareUnchanged == UNCHANGED <<emp, aggLast, repo, nextId, urepo, userVars>>

\* A caller enters RegisterHandler or Dispatch
ShareCall(c) ==
    /\ pc[c] = "idle"
    /\ now < MaxCalls
    /\ \E ty \in ShareEventTypes :
          \/ \E h \in DispHandlers :
                loc' = [loc EXCEPT ![c].op = "RegisterHandler", ![c].ty = ty,
                                   ![c].h = <<h>>, ![c].read = <<>>]
          \/ loc' = [loc EXCEPT ![c].op = "Dispatch", ![c].ty = ty,
                                 ![c].h = <<>>, ![c].read = <<>>]
    /\ pc' = [pc EXCEPT ![c] = "mapaccess"]
    /\ now' = now + 1
    /\ UNCHANGED <<handlers, last>>
    /\ ShareUnchanged

\* d.handlers[eventType] is read
ShareMapAccess(c) ==
    /\ pc[c] = "mapaccess"
    /\ loc' = [loc EXCEPT ![c].read = HandlersFor(handlers, loc[c].ty)]
    /\ pc' = [pc EXCEPT ![c] = IF loc[c].op = "RegisterHandler" THEN "mapassign"
                                ELSE "range"]
    /\ UNCHANGED <<handlers, last, now>>
    /\ ShareUnchanged

\* d.handlers[eventType] = append(<the slice read>, handler)
ShareMapAssign(c) ==
    /\ pc[c] = "mapassign"
    /\ handlers' = [ty \in DOMAIN handlers \cup {loc[c].ty} |->
                       IF ty = loc[c].ty THEN Append(loc[c].read, loc[c].h[1])
                       ELSE handlers[ty]]
    /\ loc' = [loc EXCEPT ![c].registered =
                               Append(@, <<loc[c].ty, loc[c].h[1].name>>)]
    /\ pc' = [pc EXCEPT ![c] = "idle"]
    /\ UNCHANGED <<last, now>>
    /\ ShareUnchanged

\* Dispatch ranges over the slice it read and returns
ShareRange(c) ==
    /\ pc[c] = "range"
    /\ last' = [op |-> "Dispatch", err |-> NilErr, args |-> <<loc[c].ty>>,
                invoked |-> Invoked(loc[c].read, loc[c].ty)]
    /\ pc' = [pc EXCEPT ![c] = "idle"]
    /\ UNCHANGED <<handlers, loc, now>>
    /\ ShareUnchanged

\* The runtime detects an assignment to the map concurrent with another
\* access to it: "fatal error: concurrent map writes" (or "concurrent map
\* read and map write"), which no caller can recover from
ShareFatal ==
    /\ \E c1 \in Callers, c2 \in Callers :
          /\ c1 # c2
          /\ pc[c1] = "mapassign"
          /\ pc[c2] \in {"mapaccess", "mapassign"}
          /\ last' = [op |-> "fatal", args |-> <<>>,
                      err |-> IF pc[c2] = "mapassign" THEN "concurrent map writes"
                              ELSE "concurrent map read and map write"]
    /\ pc' = [c \in Callers |-> "fatal"]
    /\ UNCHANGED <<handlers, loc, now>>
    /\ ShareUnchanged

ShareNext ==
    \/ \E c \in Callers :
          \/ ShareCall(c)
          \/ ShareMapAccess(c)
          \/ ShareMapAssign(c)
          \/ ShareRange(c)
    \/ ShareFatal

SpecShare == ShareInit /\ [][ShareNext]_vars

\* The registrations of handler name under ty that the map holds, that
\* RegisterHandler calls have returned from, and that calls are still making
StoredRegistrations(ty, name) ==
    Cardinality({k \in 1..Len(HandlersFor(handlers, ty)) : handlers[ty][k].name = name})
ReturnedRegistrations(ty, name) ==
    Cardinality({ck \in Callers \X (1..(MaxCalls + 1)) :
                    /\ ck[2] <= Len(loc[ck[1]].registered)
                    /\ loc[ck[1]].registered[ck[2]] = <<ty, name>>})
PendingRegistrations(ty, name) ==
    Cardinality({c \in Callers :
                    /\ pc[c] \in {"mapaccess", "mapassign"}
                    /\ loc[c].op = "RegisterHandler"
                    /\ loc[c].ty = ty
                    /\ loc[c].h[1].name = name})

\* C40: the EventDispatcher shared by the services is safe under concurrent
\* use: when two RegisterHandler calls for the same event type run
\* concurrently, both handlers are registered afterwards (no lost
\* registration), and a Dispatch running concurrently with a RegisterHandler
\* invokes a registered handler at most once per event.
C40_DispatcherSafeUnderConcurrentUse ==
    /\ last.op # "fatal"
    /\ (\A c \in Callers : pc[c] = "idle") =>
          \A ty \in ShareEventTypes, h \in DispHandlers :
              StoredRegistrations(ty, h.name) = ReturnedRegistrations(ty, h.name)
    /\ last.op = "Dispatch" =>
          \A h \in DispHandlers :
              Cardinality({k \in 1..Len(last.invoked) : last.invoked[k] = h.name})
                  <= ReturnedRegistrations(last.args[1], h.name)
                       + PendingRegistrations(last.args[1], h.name)

-----------------------------------------------------------------------------
(* SpecMut: one aggregate, an Employee or a User, and its mutators called in *)
(* any order with inputs they accept and inputs they refuse.                 *)

MutInit ==
    /\ emp = NoEmployee
    /\ usr = NoUser
    /\ usrPw = <<>>
    /\ bcryptStrict \in BOOLEAN
    /\ aggLast = NoCall
    /\ now = 0
    /\ nextId = 0 /\ repo = <<>> /\ last = NoCall
    /\ handlers = <<>> /\ pc = <<>> /\ loc = <<>> /\ urepo = <<>>

MutNext ==
    \/ usr = NoUser /\ AggNext
    \/ emp = NoEmployee /\ UserNext

SpecMut == MutInit /\ [][MutNext]_vars

\* C37: an aggregate mutator that returns an error leaves every field of the
\* aggregate, UpdatedAt included, unchanged: Employee.ChangeStatus,
\* UpdateSalary, UpdateContactInfo, UpdatePosition, UpdateAddress, SetManager
\* and User.Activate, Deactivate, ChangePassword, ResetPassword, UpdateRole,
\* UpdateEmail.
EmployeeMutators ==
    {"ChangeStatus", "UpdateSalary", "UpdateContactInfo", "UpdatePosition",
     "UpdateAddress", "SetManager"}
UserMutators ==
    {"Activate", "Deactivate", "ChangePassword", "ResetPassword", "UpdateRole",
     "UpdateEmail"}

C37_FailedMutatorChangesNothing ==
    [][ (aggLast'.op \in EmployeeMutators \cup UserMutators /\ aggLast'.err # NilErr) =>
          /\ emp' = emp
          /\ usr' = usr ]_vars

\* UpdateContactInfo with a valid new email and an invalid phone was refused
\* and the employee has the email it had
C37_Witness ==
    /\ emp # NoEmployee
    /\ aggLast.op = "UpdateContactInfo"
    /\ aggLast.args = <<EmailB, PhoneBad>>
    /\ aggLast.err # NilErr
    /\ Deref(emp).Email = EmailA

-----------------------------------------------------------------------------
(* UserService (user_service.go 36-123, 221-332, 378-461).  A call is        *)
(* evaluated on the UserRepository contents ur at time t.  Its value is      *)
(* [urepo, err, ret, trace]: the repository afterwards, the returned error   *)
(* and user, and the writes asked of the other collaborators.  The           *)
(* repository holds no implementation of UserRepository; as for employees    *)
(* its reads return copies of the stored rows.                               *)

ErrUserNotFound == "user not found"
ErrInvalidCredentials == "invalid credentials"
ErrUserNotActive == "user is not active"

UserRepoGetByID(ur, id) == IF id \in DOMAIN ur THEN Ptr(ur[id]) ELSE NoUser
UserRepoFindByUsername(ur, username) ==
    IF \E i \in DOMAIN ur : ur[i].Username = username
    THEN Ptr(ur[CHOOSE i \in DOMAIN ur : ur[i].Username = username])
    ELSE NoUser
UserRepoUpdate(ur, u) == [i \in DOMAIN ur |-> IF i = u.ID THEN u ELSE ur[i]]
UserRepoUpdateLastLogin(ur, id, t) ==
    [i \in DOMAIN ur |-> IF i = id THEN [ur[i] EXCEPT !.LastLogin = Ptr(t)] ELSE ur[i]]

UserFail(ur, err) == [urepo |-> ur, err |-> err, ret |-> NoUser, trace |-> <<>>]

validateUserCreation(ur, username, email) ==
    IF UserExistsByUsername(ur, username) THEN ErrUsernameAlreadyExists
    ELSE IF UserExistsByEmail(ur, email) THEN ErrEmailAlreadyExists
    ELSE NilErr

\* validateUserUpdate without the check of the username
validateUserUpdate_NoUsernameCheck(ur, u) ==
    IF /\ UserExistsByEmail(ur, u.Email)
       /\ \/ UserRepoGetByID(ur, u.ID) = NoUser
          \/ Deref(UserRepoGetByID(ur, u.ID)).Email # u.Email
    THEN ErrEmailAlreadyExists
    ELSE NilErr

validateUserUpdate(ur, u) ==
    IF /\ UserExistsByUsername(ur, u.Username)
       /\ \/ UserRepoGetByID(ur, u.ID) = NoUser
          \/ Deref(UserRepoGetByID(ur, u.ID)).Username # u.Username
    THEN ErrUsernameAlreadyExists
    ELSE IF /\ UserExistsByEmail(ur, u.Email)
            /\ \/ UserRepoGetByID(ur, u.ID) = NoUser
               \/ Deref(UserRepoGetByID(ur, u.ID)).Email # u.Email
    THEN ErrEmailAlreadyExists
    ELSE NilErr

\* applyUserUpdates: [user, changed, err].  The fields are assigned in the
\* order the map is ranged over; only "role" can fail, and the object is
\* dropped by the caller when it does, so that the order decides nothing.
applyUserUpdates(u, updates, t) ==
    LET given(f) == f \in DOMAIN updates /\ updates[f].type = "string"
    IN  IF given("role") /\ ~RoleIsValid(updates["role"].v)
        THEN [user |-> u, changed |-> {},
              err |-> "invalid role: invalid user role: " \o updates["role"].v]
        ELSE [user |-> [u EXCEPT
                          !.Username = IF given("username") THEN updates["username"].v ELSE @,
                          !.Email = IF given("email") THEN updates["email"].v ELSE @,
                          !.Role = IF given("role") THEN updates["role"].v ELSE @,
                          !.UpdatedAt = t],
              changed |-> {f \in {"username", "email", "role"} : given(f)},
              err |-> NilErr]

CreateUser(ur, newId, username, email, password, role, t) ==
    IF validateUserCreation(ur, username, email) # NilErr
    THEN UserFail(ur, validateUserCreation(ur, username, email))
    ELSE IF NewUser(newId, username, email, password, role, t).err # NilErr
    THEN UserFail(ur, "failed to create user: "
                        \o NewUser(newId, username, email, password, role, t).err)
    ELSE [urepo |-> UserRepoCreate(ur,
                        Deref(NewUser(newId, username, email, password, role, t).user)),
          err |-> NilErr,
          ret |-> NewUser(newId, username, email, password, role, t).user,
          trace |-> <<[call |-> "auditRepo.Create", operation |-> "user:create"],
                      [call |-> "eventStore.SaveEvent", type |-> "user.logged_in"],
                      [call |-> "eventDispatcher.Dispatch", type |-> "user.logged_in"]>>]

\* AuthenticateUser recording the login before it verifies the password
AuthenticateUser_LoginBeforePassword(ur, username, password, t) ==
    IF UserRepoFindByUsername(ur, username) = NoUser
    THEN UserFail(ur, ErrInvalidCredentials)
    ELSE IF ~Deref(UserRepoFindByUsername(ur, username)).IsActive
    THEN UserFail(ur, ErrUserNotActive)
    ELSE IF ~Authenticate(Deref(UserRepoFindByUsername(ur, username)), password)
    THEN [urepo |-> UserRepoUpdateLastLogin(ur,
                        Deref(UserRepoFindByUsername(ur, username)).ID, t),
          err |-> ErrInvalidCredentials, ret |-> NoUser, trace |-> <<>>]
    ELSE [urepo |-> UserRepoUpdateLastLogin(ur,
                        Deref(UserRepoFindByUsername(ur, username)).ID, t),
          err |-> NilErr,
          ret |-> Ptr(UpdateLastLogin(Deref(UserRepoFindByUsername(ur, username)), t)),
          trace |-> <<[call |-> "eventStore.SaveEvent", type |-> "user.logged_in"],
                      [call |-> "eventDispatcher.Dispatch", type |-> "user.logged_in"]>>]

AuthenticateUser(ur, username, password, t) ==
    IF UserRepoFindByUsername(ur, username) = NoUser
    THEN UserFail(ur, ErrInvalidCredentials)
    ELSE IF ~Deref(UserRepoFindByUsername(ur, username)).IsActive
    THEN UserFail(ur, ErrUserNotActive)
    ELSE IF ~Authenticate(Deref(UserRepoFindByUsername(ur, username)), password)
    THEN UserFail(ur, ErrInvalidCredentials)
    ELSE [urepo |-> UserRepoUpdateLastLogin(ur,
                        Deref(UserRepoFindByUsername(ur, username)).ID, t),
          err |-> NilErr,
          ret |-> Ptr(UpdateLastLogin(Deref(UserRepoFindByUsername(ur, username)), t)),
          trace |-> <<[call |-> "eventStore.SaveEvent", type |-> "user.logged_in"],
                      [call |-> "eventDispatcher.Dispatch", type |-> "user.logged_in"]>>]

\* UpdateUserProfile once the user is loaded: ap is what applyUserUpdates
\* returned
saveUpdatedUser(ur, ap) ==
    IF ap.err # NilErr THEN UserFail(ur, ap.err)
    ELSE IF validateUserUpdate(ur, ap.user) # NilErr
    THEN UserFail(ur, validateUserUpdate(ur, ap.user))
    ELSE [urepo |-> UserRepoUpdate(ur, ap.user), err |-> NilErr, ret |-> Ptr(ap.user),
          trace |-> <<[call |-> "auditRepo.Create", operation |-> "user:update"]>>]

UpdateUserProfile(ur, userID, updates, t) ==
    IF UserRepoGetByID(ur, userID) = NoUser THEN UserFail(ur, ErrUserNotFound)
    ELSE saveUpdatedUser(ur, applyUserUpdates(Deref(UserRepoGetByID(ur, userID)), updates, t))

\* DeactivateUser / ActivateUser once the user is loaded: r is what
\* User.Deactivate / User.Activate returned
saveToggledUser(ur, r) ==
    IF r.err # NilErr THEN UserFail(ur, r.err)
    ELSE [urepo |-> UserRepoUpdate(ur, Deref(r.user)), err |-> NilErr, ret |-> NoUser,
          trace |-> <<[call |-> "auditRepo.Create", operation |-> "user:update"]>>]

DeactivateUser(ur, userID, t) ==
    IF UserRepoGetByID(ur, userID) = NoUser THEN UserFail(ur, ErrUserNotFound)
    ELSE saveToggledUser(ur, Deactivate(Deref(UserRepoGetByID(ur, userID)), t))

ActivateUser(ur, userID, t) ==
    IF UserRepoGetByID(ur, userID) = NoUser THEN UserFail(ur, ErrUserNotFound)
    ELSE saveToggledUser(ur, Activate(Deref(UserRepoGetByID(ur, userID)), t))

-----------------------------------------------------------------------------
(* SpecUserSvc: sequential calls of UserService, every collaborator working *)

UserSvcInit ==
    /\ urepo = <<>>
    /\ nextId = 0
    /\ now = 0
    /\ last = NoCall
    /\ usr = NoUser /\ usrPw = <<>> /\ bcryptStrict \in BOOLEAN
    /\ emp = NoEmployee /\ aggLast = NoCall /\ repo = <<>>
    /\ handlers = <<>> /\ pc = <<>> /\ loc = <<>>

UserSvcCall(op, args, res) ==
    /\ now < MaxCalls
    /\ \E r \in {res} :
             /\ now' = now + 1
             /\ urepo' = r.urepo
             /\ nextId' = IF DOMAIN r.urepo \subseteq DOMAIN urepo THEN nextId ELSE nextId + 1
             /\ last' = [op |-> op, args |-> args, err |-> r.err, ret |-> r.ret,
                         trace |-> r.trace]
             /\ UNCHANGED <<emp, aggLast, repo, handlers, pc, loc, userVars>>

UserSvcCreateUser ==
    /\ nextId < MaxIds
    /\ \E username \in {NameBob, NameAmy}, email \in {EmailA, EmailB},
          password \in {PasswordOk, PasswordWeak} :
          UserSvcCall("CreateUser", <<username, email, password>>,
                      CreateUser(urepo, nextId + 1, username, email, password,
                                 UserRoleViewer, now + 1))

UserSvcAuthenticateUser ==
    /\ now < MaxCalls
    /\ \E username \in {NameBob, NameAmy}, password \in {PasswordOk, PasswordB} :
           UserSvcCall("AuthenticateUser", <<username, password>>,
                       AuthenticateUser(urepo, username, password, now + 1))

UserSvcUpdateMaps ==
    << [username |-> Str(NameBob)], [username |-> Str(NameAmy)],
       [email |-> Str(EmailA)], [email |-> Str(EmailB)],
       [username |-> Str(NameAmy), email |-> Str(EmailB)],
       [role |-> Str(UserRoleAdmin)], [username |-> Str(NameAmy), role |-> Str("ROOT")],
       [username |-> Num(5)],
       [username |-> Str(<<"_","b">>)], [email |-> Str(EmailNoAt)] >>

UserSvcUpdateUserProfile ==
    /\ now < MaxCalls
    /\ \E id \in CallIds, k \in 1..Len(UserSvcUpdateMaps) :
           UserSvcCall("UpdateUserProfile", <<id, UserSvcUpdateMaps[k]>>,
                       UpdateUserProfile(urepo, id, UserSvcUpdateMaps[k], now + 1))

UserSvcDeactivateUser ==
    /\ now < MaxCalls
    /\ \E id \in CallIds :
           UserSvcCall("DeactivateUser", <<id>>, DeactivateUser(urepo, id, now + 1))

UserSvcActivateUser ==
    /\ now < MaxCalls
    /\ \E id \in CallIds :
           UserSvcCall("ActivateUser", <<id>>, ActivateUser(urepo, id, now + 1))

UserSvcNext ==
    \/ UserSvcCreateUser
    \/ UserSvcAuthenticateUser
    \/ UserSvcUpdateUserProfile
    \/ UserSvcDeactivateUser
    \/ UserSvcActivateUser

SpecUserSvc == UserSvcInit /\ [][UserSvcNext]_vars

\* C18: AuthenticateUser returns InvalidCredentials both when the username is
\* unknown and when it exists but the password is wrong, so that the result
\* does not tell a caller without the password whether the username exists.
C18_UnknownAndWrongPasswordAlike ==
    [][ last'.op = "AuthenticateUser" =>
          LET found == UserRepoFindByUsername(urepo, last'.args[1])
          IN  (\/ found = NoUser
               \/ ~CheckPassword(last'.args[2], Deref(found).Password))
                 => last'.err = ErrInvalidCredentials ]_vars

\* No two stored users share a username or an email
UniqueUsers(ur) ==
    \A i, j \in DOMAIN ur :
        (ur[i].Username = ur[j].Username \/ ur[i].Email = ur[j].Email) => i = j

\* Another user than id holds value v in field f
HeldByOther(ur, id, f, v) == \E j \in DOMAIN ur \ {id} : ur[j][f] = v

\* C19: after every CreateUser and UpdateUserProfile call the stored
\* usernames and emails are unique.  CreateUser fails with
\* UsernameAlreadyExists or EmailAlreadyExists when either is taken;
\* UpdateUserProfile rejects a username or email held by another user and
\* accepts values no other user holds, the user's own among them.
C19_UsernamesAndEmailsUnique ==
    [][ /\ UniqueUsers(urepo')
        /\ last'.op = "CreateUser" =>
              /\ UserExistsByUsername(urepo, last'.args[1]) =>
                    last'.err = ErrUsernameAlreadyExists /\ urepo' = urepo
              /\ (~UserExistsByUsername(urepo, last'.args[1])
                    /\ UserExistsByEmail(urepo, last'.args[2])) =>
                    last'.err = ErrEmailAlreadyExists /\ urepo' = urepo
        /\ (last'.op = "UpdateUserProfile" /\ last'.args[1] \in DOMAIN urepo) =>
              LET id == last'.args[1]
                  updates == last'.args[2]
                  given(f) == f \in DOMAIN updates /\ updates[f].type = "string"
                  taken(f, F) == given(f) /\ HeldByOther(urepo, id, F, updates[f].v)
              IN  /\ (taken("username", "Username") \/ taken("email", "Email")) =>
                        last'.err # NilErr /\ urepo' = urepo
                  /\ (/\ ~taken("username", "Username")
                      /\ ~taken("email", "Email")
                      /\ given("role") => RoleIsValid(updates["role"].v)) =>
                        last'.err = NilErr
      ]_vars

\* With bob and amy stored, bob's profile was updated with his own username
\* and the call succeeded
C19_Witness ==
    /\ last.op = "UpdateUserProfile"
    /\ last.args[1] = 1
    /\ DOMAIN last.args[2] = {"username"}
    /\ last.args[2].username.type = "string"
    /\ last.args[2].username.v = NameBob
    /\ last.err = NilErr
    /\ DOMAIN urepo = {1, 2}
    /\ urepo[1].Username = NameBob
    /\ urepo[2].Username = NameAmy
    /\ urepo[1].UpdatedAt = 3

\* C31: after a successful UpdateUserProfile the stored user's username,
\* email and role satisfy the User validators; an update carrying an invalid
\* value is rejected and nothing is persisted.
C31_UpdatedProfileIsValid ==
    (last.op = "UpdateUserProfile" /\ last.err = NilErr) =>
        /\ validateUsername(urepo[last.args[1]].Username) = NilErr
        /\ validateUserEmail(urepo[last.args[1]].Email) = NilErr
        /\ RoleIsValid(urepo[last.args[1]].Role)

\* C39: AuthenticateUser records a login (UpdateLastLogin on the repository
\* and a user.logged_in event saved and dispatched) only when authentication
\* succeeds; a call that fails with InvalidCredentials or UserNotActive makes
\* no repository write and emits no event.
C39_LoginRecordedOnlyOnSuccess ==
    [][ last'.op = "AuthenticateUser" =>
          /\ last'.err \in {NilErr, ErrInvalidCredentials, ErrUserNotActive}
          /\ last'.err # NilErr =>
                /\ urepo' = urepo
                /\ last'.trace = <<>>
          /\ last'.err = NilErr =>
                /\ last'.trace = <<[call |-> "eventStore.SaveEvent", type |-> "user.logged_in"],
                                   [call |-> "eventDispatcher.Dispatch", type |-> "user.logged_in"]>>
                /\ \E i \in DOMAIN urepo :
                      /\ urepo[i].Username = last'.args[1]
                      /\ urepo'[i].LastLogin = Ptr(now')
                      /\ \A j \in DOMAIN urepo \ {i} : urepo'[j] = urepo[j]
      ]_vars

\* A stored, active user was refused for a wrong password after having
\* logged in before: the time of the last login is that of the earlier call
C39_Witness ==
    /\ last.op = "AuthenticateUser"
    /\ last.err = ErrInvalidCredentials
    /\ last.trace = <<>>
    /\ now = 3
    /\ \E i \in DOMAIN urepo :
          /\ urepo[i].Username = last.args[1]
          /\ urepo[i].IsActive
          /\ urepo[i].LastLogin = Ptr(2)

-----------------------------------------------------------------------------
(* SpecAudit: audit log entries built by NewAuditLog from pairs of value    *)
(* maps and then asked for their kind, their changed fields and their       *)
(* change summary.  Among the maps are the two of TestAuditLogChangeDetection *)
(* and the snapshots EmployeeService.UpdateEmployee takes of an employee    *)
(* before and after a change of salary and before and after its manager is  *)
(* cleared.                                                                 *)

\* The dynamic type of the value createEmployeeSnapshot stores under key
SnapshotGoType(key) ==
    IF key \in {"id", "managerId"} THEN "uuid"
    ELSE IF key \in {"hireDate", "updatedAt"} THEN "time"
    ELSE IF key = "salary" THEN "float64"
    ELSE IF key = "address" THEN "map"
    ELSE "string"

\* A snapshot with the dynamic type of each of its values
TypedSnapshot(snapshot) ==
    [key \in DOMAIN snapshot |-> [type |-> SnapshotGoType(key), v |-> snapshot[key]]]

EmployeeAt50000 == Deref(NewEmployee(1, BaseArgs, 1).employee)
EmployeeWithAddress == Deref(NewEmployee(1, [BaseArgs EXCEPT !.address = AddrOk], 1).employee)
EmployeeWithManager == Deref(NewEmployee(2, [BaseArgs EXCEPT !.managerID = Ptr(1)], 1).employee)

AuditValueMaps ==
    { NilValues,
      [salary |-> Num(50000), status |-> [type |-> "string", v |-> "ACTIVE"]],
      [salary |-> Num(60000), status |-> [type |-> "string", v |-> "ACTIVE"]],
      [salary |-> Str(<<"5","0","0","0","0">>)],
      [firstName |-> Str(NameJo), lastName |-> Str(NameAnn), email |-> Str(EmailA),
       phone |-> Str(<<>>)],
      [firstName |-> Str(NameBob), lastName |-> Str(NameAmy), email |-> Str(EmailB),
       phone |-> Str(<<"5","5","5">>), department |-> Str(DeptIT)],
      TypedSnapshot(createEmployeeSnapshot(EmployeeAt50000)),
      TypedSnapshot(createEmployeeSnapshot(Deref(UpdateSalary(EmployeeAt50000, 60000, 2).employee))),
      TypedSnapshot(createEmployeeSnapshot(EmployeeWithAddress)),
      TypedSnapshot(createEmployeeSnapshot(Deref(UpdateSalary(EmployeeWithAddress, 60000, 2).employee))),
      TypedSnapshot(createEmployeeSnapshot(EmployeeWithManager)),
      TypedSnapshot(createEmployeeSnapshot(Deref(SetManager(EmployeeWithManager, NilManager, 2).employee))) }

\* The field names GetFieldChange is asked about: every key of the maps and
\* one that is a key of none
AuditFieldNames == UNION {DOMAIN m : m \in AuditValueMaps} \cup {"nickname"}

AuditInit ==
    /\ last = NoCall
    /\ aggLast = NoCall
    /\ now = 0
    /\ emp = NoEmployee /\ nextId = 0 /\ repo = <<>>
    /\ handlers = <<>> /\ pc = <<>> /\ loc = <<>> /\ urepo = <<>>
    /\ NoUserObject

AuditUnchanged == UNCHANGED <<emp, nextId, repo, handlers, pc, loc, urepo, userVars>>

\* The log under test, when NewAuditLog returned one
HasAuditLog == last.op = "NewAuditLog" /\ last.log # NilAuditLog

\* One entry is under test in a behaviour: NewAuditLog is called until it
\* returns one
AuditNewAuditLog ==
    /\ ~HasAuditLog
    /\ now < MaxCalls
    /\ \E oldValues \in AuditValueMaps, newValues \in AuditValueMaps,
          ctx \in {CtxOk, CtxShortIp} :
          \E r \in {NewAuditLog(1, OperationUpdateEmployee, ctx.userID, oldValues,
                                 newValues, ctx.ipAddress, ctx.userAgent, now + 1)} :
              last' = [op |-> "NewAuditLog", args |-> <<oldValues, newValues>>,
                       log |-> r.log, err |-> r.err]
    /\ now' = now + 1
    /\ aggLast' = NoCall
    /\ AuditUnchanged

AuditIsKind ==
    /\ HasAuditLog
    /\ aggLast' = [op |-> "IsKind", err |-> NilErr, args |-> <<>>,
                   ret |-> [IsCreation |-> IsCreation(Deref(last.log)),
                            IsDeletion |-> IsDeletion(Deref(last.log)),
                            IsUpdate |-> IsUpdate(Deref(last.log))]]
    /\ UNCHANGED <<last, now>>
    /\ AuditUnchanged

AuditGetChangedFields ==
    /\ HasAuditLog
    /\ aggLast' = [op |-> "GetChangedFields", err |-> NilErr, args |-> <<>>,
                   ret |-> GetChangedFields(Deref(last.log))]
    /\ UNCHANGED <<last, now>>
    /\ AuditUnchanged

AuditGetChangeSummary ==
    /\ HasAuditLog
    /\ \E r \in GetChangeSummary(Deref(last.log)) :
          aggLast' = [op |-> "GetChangeSummary", err |-> NilErr, args |-> <<>>, ret |-> r]
    /\ UNCHANGED <<last, now>>
    /\ AuditUnchanged

AuditGetFieldChange ==
    /\ HasAuditLog
    /\ \E field \in AuditFieldNames :
          aggLast' = [op |-> "GetFieldChange", err |-> NilErr, args |-> <<field>>,
                      ret |-> GetFieldChange(Deref(last.log), field)]
    /\ UNCHANGED <<last, now>>
    /\ AuditUnchanged

AuditNext ==
    \/ AuditNewAuditLog
    \/ AuditIsKind
    \/ AuditGetChangedFields
    \/ AuditGetChangeSummary
    \/ AuditGetFieldChange

SpecAudit == AuditInit /\ [][AuditNext]_vars

\* C21: for every AuditLog accepted by NewAuditLog exactly one of IsCreation
\* (old empty, new non-empty), IsDeletion (new empty, old non-empty) and
\* IsUpdate (both non-empty) is true; NewAuditLog rejects an entry whose
\* OldValues and NewValues are both empty.
C21_ExactlyOneKind ==
    /\ last.op = "NewAuditLog" =>
          ((last.args[1] = NilValues /\ last.args[2] = NilValues) =>
              last.log = NilAuditLog /\ last.err # NilErr)
    /\ HasAuditLog =>
          LET a == Deref(last.log)
              oldEmpty == DOMAIN a.OldValues = {}
              newEmpty == DOMAIN a.NewValues = {}
          IN  /\ Cardinality({k \in {"c", "d", "u"} :
                       \/ k = "c" /\ IsCreation(a)
                       \/ k = "d" /\ IsDeletion(a)
                       \/ k = "u" /\ IsUpdate(a)}) = 1
              /\ IsCreation(a) <=> (oldEmpty /\ ~newEmpty)
              /\ IsDeletion(a) <=> (newEmpty /\ ~oldEmpty)
              /\ IsUpdate(a) <=> (~oldEmpty /\ ~newEmpty)
    /\ aggLast.op = "IsKind" =>
          Cardinality({k \in DOMAIN aggLast.ret : aggLast.ret[k]}) = 1

\* An accepted entry with old values only was asked for its kind: a deletion
C21_Witness ==
    /\ HasAuditLog
    /\ last.args[2] = NilValues
    /\ aggLast.op = "IsKind"
    /\ aggLast.ret = [IsCreation |-> FALSE, IsDeletion |-> TRUE, IsUpdate |-> FALSE]

\* C22: for an AuditLog with both snapshots non-empty, GetChangedFields and
\* the fields named by GetChangeSummary contain every key present in both
\* maps with unequal values and no key present in both with equal values.
C22_ChangedFieldsReported ==
    (HasAuditLog /\ aggLast.op \in {"GetChangedFields", "GetChangeSummary"}
       /\ IsUpdate(Deref(last.log))) =>
        LET a == Deref(last.log)
            reported == IF aggLast.op = "GetChangedFields" THEN aggLast.ret.fields
                        ELSE aggLast.ret.named
        IN  /\ ~aggLast.ret.panicked
            /\ \A f \in CommonFields(a) :
                  (f \in reported) <=> (a.OldValues[f] # a.NewValues[f])

\* C38: for every AuditLog and field name f, f is in GetChangedFields()
\* exactly when GetFieldChange(f) reports changed = true; a key of OldValues
\* that NewValues does not have (managerId after UpdateEmployee cleared the
\* manager) is reported as changed by both.  Stated for the entries on which
\* neither method panics.
C38_ChangedFieldsAgreeWithFieldChange ==
    (HasAuditLog /\ aggLast.op = "GetFieldChange" /\ ~aggLast.ret.panicked
       /\ ~GetChangedFields(Deref(last.log)).panicked) =>
        /\ (aggLast.args[1] \in GetChangedFields(Deref(last.log)).fields)
              <=> aggLast.ret.changed
        /\ (aggLast.args[1] \in DOMAIN Deref(last.log).OldValues
               \ DOMAIN Deref(last.log).NewValues) => aggLast.ret.changed

====
